---- MODULE Spec2Model ----
(***************************************************************************)
(* SatMap simulation engine (satmap/src/simulationEngine.ts).              *)
(*                                                                         *)
(* One run of runSimulation is modelled as a state machine: Beacon         *)
(* element synthesis, the awaited relay element-set fetch, the time-step   *)
(* loop (one action per iteration, the inner per-relay loop folded into    *)
(* it), and the finalisation that closes an open blackout and aggregates   *)
(* the statistics.                                                         *)
(*                                                                         *)
(* The external propagator (satellite.js) and the cone geometry applied to *)
(* its positions are inputs of each step: per relay record the outcome is  *)
(* "fail" (propagateSatellite returned null), "out" or "in"                *)
(* (isPointInCone false / true).  Positions themselves are not kept; a     *)
(* track sample is represented by its timestamp.  The console log counter  *)
(* (logCounter, shouldLogThisStep) has no effect on the result and is not  *)
(* modelled.                                                               *)
(***************************************************************************)
EXTENDS Integers, Sequences, FiniteSets, TLC

\* ------------------------------------------------------------------ bounds
\* longest relay element-set list returned by the provider
MaxTles == 2
\* largest simulationDurationHours, in units of 1/HoursScale hour
MaxDurationUnits == 4
\* largest simulationTimeStepSec
MaxTimeStepSec == 2

\* simulationDurationHours is a fractional number of hours; the model holds
\* it as a count of 1/7200 hour, so that hours * 60 * 60 * 1000 is a whole
\* number of milliseconds (500 ms per unit) that need not be a multiple of
\* the time step.
HoursScale == 7200

SatNames == {"IRIDIUM A", "IRIDIUM B"}
StartTimes == {1700}

\* option values: null is the empty sequence, a value v is <<v>>
Null == <<>>
Some(v) == <<v>>

\* ------------------------------------------------------------ input spaces
SunSynchronousParams ==
    { [type |-> "SunSynchronous", altitude |-> a, localSolarTimeAtDescendingNode |-> l,
       inclination |-> 0, raan |-> Null] : a \in {0, 700}, l \in {0, 24} }

NonPolarParams ==
    { [type |-> "NonPolar", altitude |-> a, localSolarTimeAtDescendingNode |-> 0,
       inclination |-> i, raan |-> Null] : a \in {700}, i \in {98, 181} }

BeaconParamsSet == SunSynchronousParams \cup NonPolarParams

\* the two fields of view are the defaults of the input form
Configs ==
    { [beaconParams |-> p, iridiumFovDeg |-> 10, beaconFovDeg |-> 62,
       simulationDurationHours |-> d, simulationTimeStepSec |-> s] :
        p \in BeaconParamsSet, d \in 0..MaxDurationUnits, s \in 1..MaxTimeStepSec }

\* a fetched element set: its name and whether satellite.js accepts its lines
TleSet == [name : SatNames, parses : BOOLEAN]
\* the lists the provider may return; names are only ever compared for
\* equality, so a non-empty list is taken to begin with IRIDIUM A
TleLists ==
    { l \in UNION { [1..n -> TleSet] : n \in 0..MaxTles } :
        l # <<>> => l[1].name = "IRIDIUM A" }

Outcomes == {"fail", "out", "in"}

VARIABLES
    pc,                 \* "start", "fetching", "loop", "done", "rejected"
    config, startTime,  \* the arguments of runSimulation
    beaconSatRec,       \* "unset", "null" or "satrec"
    iridiumSatRecs,     \* sequence of [id |-> name]
    totalHandshakes, handshakeLog, blackoutPeriods,
    beaconTrack, iridiumTracks, activeLinksLog,
    currentTime,
    previousConnectedIridiumSatIds, currentBlackout,
    result,             \* Null, or Some(SimulationResults)
    error,              \* Null, or Some(message)
    \* history of the run, for stating the properties
    fetchStarted,       \* the relay fetch has been called
    propagateCalls,     \* [beacon |-> n, relay |-> n] calls of propagateSatellite
    coneTests,          \* calls of isPointInCone
    trace,              \* one entry per loop iteration: timestamp, outcomes
    iridiumTLEs,        \* Null, or Some(the list the relay fetch resolved with)
    \* other invocations of runSimulation
    pending,            \* invocations suspended at the awaited fetch
    returned,           \* invocations whose promise has settled
    \* a single application of one of the pure functions, taken on its own
    call,
    \* the state of the App component that calls runSimulation, taken on its own
    app

vars == <<pc, config, startTime, beaconSatRec, iridiumSatRecs, totalHandshakes,
          handshakeLog, blackoutPeriods, beaconTrack, iridiumTracks, activeLinksLog,
          currentTime, previousConnectedIridiumSatIds, currentBlackout, result, error,
          fetchStarted, propagateCalls, coneTests, trace, iridiumTLEs,
          pending, returned, call, app>>

\* what a step of the running invocation never touches
elsewhere == <<pending, returned, call, app>>

\* ------------------------------------------------ Beacon element synthesis
\* libraryAccepts: createTLEStringsFromBeaconParams produced strings and
\* satellite.twoline2satrec returned a record without error code.
nonPolarParamsInvalidOpenRaan(params) ==
    \/ params.altitude <= 0 \/ params.inclination < 0 \/ params.inclination > 180
    \/ params.raan # Null /\ (Head(params.raan) < 0 \/ Head(params.raan) > 360)

\* geometry.ts lines 418 and 423: the two early returns of the non-polar
\* synthesis (raan is optional; Null stands for undefined)
nonPolarParamsInvalid(params) ==
    \/ params.altitude <= 0 \/ params.inclination < 0 \/ params.inclination > 180
    \/ params.raan # Null /\ (Head(params.raan) < 0 \/ Head(params.raan) >= 360)

\* geometry.ts line 473: the early return of the sun-synchronous synthesis
sunSynchronousParamsInvalid(params) ==
    \/ params.altitude <= 0 \/ params.localSolarTimeAtDescendingNode < 0
    \/ params.localSolarTimeAtDescendingNode >= 24

createSatrecForNonPolarBeacon(params, libraryAccepts) ==
    IF nonPolarParamsInvalid(params) THEN "null"
    ELSE IF libraryAccepts THEN "satrec" ELSE "null"

createSatrecForSunSynchronousBeacon(params, libraryAccepts) ==
    IF sunSynchronousParamsInvalid(params) THEN "null"
    ELSE IF libraryAccepts THEN "satrec" ELSE "null"

\* geometry.ts lines 431 and 481: createTLEStringsFromBeaconParams, which
\* computes the elements and formats the two lines, is called only past the
\* early returns
tleStringsRequested(params) ==
    IF params.type = "SunSynchronous"
    THEN ~sunSynchronousParamsInvalid(params)
    ELSE ~nonPolarParamsInvalid(params)

\* simulationEngine.ts lines 29-33: the synthesis is chosen by params.type
createBeaconSatrec(params, libraryAccepts) ==
    IF params.type = "SunSynchronous"
    THEN createSatrecForSunSynchronousBeacon(params, libraryAccepts)
    ELSE createSatrecForNonPolarBeacon(params, libraryAccepts)

\* ------------------------------------------------------- derived constants
simulationDurationMs == (config.simulationDurationHours * 60 * 60 * 1000) \div HoursScale
timeStepMs == config.simulationTimeStepSec * 1000
endTime == startTime + simulationDurationMs

Init ==
    /\ pc = "start"
    /\ config \in Configs
    /\ startTime \in StartTimes
    /\ beaconSatRec = "unset"
    /\ iridiumSatRecs = <<>>
    /\ totalHandshakes = 0
    /\ handshakeLog = <<>>
    /\ blackoutPeriods = <<>>
    /\ beaconTrack = <<>>
    /\ iridiumTracks = [id \in {} |-> <<>>]
    /\ activeLinksLog = <<>>
    /\ currentTime = startTime
    /\ previousConnectedIridiumSatIds = {}
    /\ currentBlackout = Null
    /\ result = Null
    /\ error = Null
    /\ fetchStarted = FALSE
    /\ propagateCalls = [beacon |-> 0, relay |-> 0]
    /\ coneTests = 0
    /\ trace = <<>>
    /\ iridiumTLEs = Null
    /\ pending = <<>>
    /\ returned = <<>>
    /\ call = Null
    /\ app = Null

synthesisFailedNever(rec) == FALSE

\* line 35: if (!beaconSatRec) throw
synthesisFailed(rec) == rec = "null"

\* runSimulation, lines 28-39: synthesise the Beacon record, throw when it is
\* null, otherwise call fetchIridiumTLEs and await it.
InitializeBeacon ==
    /\ pc = "start"
    /\ \E libraryAccepts \in BOOLEAN :
         LET rec == createBeaconSatrec(config.beaconParams, libraryAccepts)
         IN /\ beaconSatRec' = rec
            /\ IF synthesisFailed(rec)
               THEN /\ pc' = "rejected"
                    /\ error' = Some("Failed to initialize Beacon satellite record.")
                    /\ fetchStarted' = FALSE
               ELSE /\ pc' = "fetching"
                    /\ error' = error
                    /\ fetchStarted' = TRUE
    /\ UNCHANGED <<config, startTime, iridiumSatRecs, totalHandshakes, handshakeLog,
                   blackoutPeriods, beaconTrack, iridiumTracks, activeLinksLog, currentTime,
                   previousConnectedIridiumSatIds, currentBlackout, result,
                   propagateCalls, coneTests, trace, iridiumTLEs, elsewhere>>

initializeSatRecsKeepsAll(tles) == [k \in 1..Len(tles) |-> [id |-> tles[k].name]]

\* lines 44-46: map every TLE to {id, rec} and keep those whose rec is not null
RECURSIVE initializeSatRecs(_)
initializeSatRecs(tles) ==
    IF tles = <<>> THEN <<>>
    ELSE IF Head(tles).parses
         THEN <<[id |-> Head(tles).name]>> \o initializeSatRecs(Tail(tles))
         ELSE initializeSatRecs(Tail(tles))

satRecIds(recs) == { recs[k].id : k \in 1..Len(recs) }

\* the variables declared past the await (lines 59-75)
loopVars == <<iridiumSatRecs, totalHandshakes, handshakeLog, blackoutPeriods, beaconTrack,
              iridiumTracks, activeLinksLog, currentTime, previousConnectedIridiumSatIds,
              currentBlackout>>

sharedLoopVariables ==
    [totalHandshakes |-> totalHandshakes,
     handshakeLog |-> handshakeLog,
     blackoutPeriods |-> blackoutPeriods,
     beaconTrack |-> beaconTrack,
     activeLinksLog |-> activeLinksLog,
     currentTime |-> startTime,
     previousConnected |-> previousConnectedIridiumSatIds,
     currentBlackout |-> currentBlackout]

\* lines 59-75: every invocation declares its own accumulators and loop state
freshLoopVariables ==
    [totalHandshakes |-> 0,
     handshakeLog |-> <<>>,
     blackoutPeriods |-> <<>>,
     beaconTrack |-> <<>>,
     activeLinksLog |-> <<>>,
     currentTime |-> startTime,
     previousConnected |-> {},
     currentBlackout |-> Null]

\* line 40: if (iridiumTLEs.length === 0)
noTLEsFetched(tles) == Len(tles) = 0

\* lines 40-75 for a fetch that resolved with tles: throw on an empty list or
\* when no record initialises; otherwise declare the loop variables
fetchResolves(tles) ==
    LET recs == initializeSatRecs(tles)
        fresh == freshLoopVariables
    IN /\ iridiumTLEs' = Some(tles)
       /\ IF noTLEsFetched(tles)
          THEN /\ pc' = "rejected"
               /\ error' = Some("No Iridium TLEs fetched. Cannot run simulation.")
               /\ UNCHANGED loopVars
          ELSE IF Len(recs) = 0
          THEN /\ pc' = "rejected"
               /\ error' = Some("Failed to initialize any Iridium satellite records from TLEs.")
               /\ UNCHANGED loopVars
          ELSE /\ pc' = "loop"
               /\ error' = error
               /\ iridiumSatRecs' = recs
               /\ iridiumTracks' = [id \in satRecIds(recs) |-> <<>>]
               /\ totalHandshakes' = fresh.totalHandshakes
               /\ handshakeLog' = fresh.handshakeLog
               /\ blackoutPeriods' = fresh.blackoutPeriods
               /\ beaconTrack' = fresh.beaconTrack
               /\ activeLinksLog' = fresh.activeLinksLog
               /\ currentTime' = fresh.currentTime
               /\ previousConnectedIridiumSatIds' = fresh.previousConnected
               /\ currentBlackout' = fresh.currentBlackout
       /\ UNCHANGED <<config, startTime, beaconSatRec, result, fetchStarted,
                      propagateCalls, coneTests, trace, elsewhere>>

\* runSimulation, lines 39-75: the awaited fetch resolves
FetchResolved ==
    /\ pc = "fetching"
    /\ \E tles \in TleLists : fetchResolves(tles)

\* ---------------------------------------------------------- the step loop
\* line 144: a connection is new when the relay id was not in the set of the
\* preceding processed step
isNewConnectionNever(previousConnected, id) == FALSE

isNewConnectionAlways(previousConnected, id) == TRUE

isNewConnection(previousConnected, id) == id \notin previousConnected

closedBlackoutAtNextStep(blackoutStart, endTimeMs) ==
    [startTime |-> blackoutStart, endTime |-> endTimeMs + timeStepMs,
     duration |-> (endTimeMs + timeStepMs - blackoutStart) \div 1000]

closedBlackoutMillis(blackoutStart, endTimeMs) ==
    [startTime |-> blackoutStart, endTime |-> endTimeMs,
     duration |-> endTimeMs - blackoutStart]

\* lines 174-178 and 191-195: the record pushed when a blackout is closed
closedBlackout(blackoutStart, endTimeMs) ==
    [startTime |-> blackoutStart, endTime |-> endTimeMs,
     duration |-> (endTimeMs - blackoutStart) \div 1000]

relayBodyBidirectional(iridiumSat, outcome, t, previousConnected, acc) ==
    IF outcome = "fail"
    THEN [acc EXCEPT !.propagated = @ + 1]
    ELSE LET tracked == [acc EXCEPT !.propagated = @ + 1,
                                    !.coneTests = @ + 1,
                                    !.iridiumTracks[iridiumSat.id] = Append(@, t)]
         IN IF outcome = "in" /\ config.beaconFovDeg >= 62
            THEN LET linked == [tracked EXCEPT !.beaconIsInCommunication = TRUE,
                                               !.currentConnected = @ \cup {iridiumSat.id}]
                 IN IF isNewConnection(previousConnected, iridiumSat.id)
                    THEN [linked EXCEPT !.totalHandshakes = @ + 1,
                                        !.handshakeLog = Append(@,
                                            [timestamp |-> t,
                                             iridiumSatelliteId |-> iridiumSat.id])]
                    ELSE linked
            ELSE tracked

relayBodyFailureKeepsLink(iridiumSat, outcome, t, previousConnected, acc) ==
    IF outcome = "fail"
    THEN IF iridiumSat.id \in previousConnected
         THEN [acc EXCEPT !.propagated = @ + 1,
                          !.beaconIsInCommunication = TRUE,
                          !.currentConnected = @ \cup {iridiumSat.id}]
         ELSE [acc EXCEPT !.propagated = @ + 1]
    ELSE LET tracked == [acc EXCEPT !.propagated = @ + 1,
                                    !.coneTests = @ + 1,
                                    !.iridiumTracks[iridiumSat.id] = Append(@, t)]
         IN IF outcome = "in"
            THEN LET linked == [tracked EXCEPT !.beaconIsInCommunication = TRUE,
                                               !.currentConnected = @ \cup {iridiumSat.id}]
                 IN IF isNewConnection(previousConnected, iridiumSat.id)
                    THEN [linked EXCEPT !.totalHandshakes = @ + 1,
                                        !.handshakeLog = Append(@,
                                            [timestamp |-> t,
                                             iridiumSatelliteId |-> iridiumSat.id])]
                    ELSE linked
            ELSE tracked

relayBodyCountsEveryLink(iridiumSat, outcome, t, previousConnected, acc) ==
    IF outcome = "fail"
    THEN [acc EXCEPT !.propagated = @ + 1]
    ELSE LET tracked == [acc EXCEPT !.propagated = @ + 1,
                                    !.coneTests = @ + 1,
                                    !.iridiumTracks[iridiumSat.id] = Append(@, t)]
         IN IF outcome = "in"
            THEN LET linked == [tracked EXCEPT !.beaconIsInCommunication = TRUE,
                                               !.currentConnected = @ \cup {iridiumSat.id},
                                               !.totalHandshakes = @ + 1]
                 IN IF isNewConnection(previousConnected, iridiumSat.id)
                    THEN [linked EXCEPT !.handshakeLog = Append(@,
                                            [timestamp |-> t,
                                             iridiumSatelliteId |-> iridiumSat.id])]
                    ELSE linked
            ELSE tracked

\* lines 113-161: the body of the per-relay loop for one record.  acc holds
\* the values the body reads and writes.
relayBody(iridiumSat, outcome, t, previousConnected, acc) ==
    IF outcome = "fail"
    THEN [acc EXCEPT !.propagated = @ + 1]
    ELSE LET tracked == [acc EXCEPT !.propagated = @ + 1,
                                    !.coneTests = @ + 1,
                                    !.iridiumTracks[iridiumSat.id] = Append(@, t)]
         IN IF outcome = "in"
            THEN LET linked == [tracked EXCEPT !.beaconIsInCommunication = TRUE,
                                               !.currentConnected = @ \cup {iridiumSat.id}]
                 IN IF isNewConnection(previousConnected, iridiumSat.id)
                    THEN [linked EXCEPT !.totalHandshakes = @ + 1,
                                        !.handshakeLog = Append(@,
                                            [timestamp |-> t,
                                             iridiumSatelliteId |-> iridiumSat.id])]
                    ELSE linked
            ELSE tracked

RECURSIVE relayLoopStopsAtFirstLink(_, _, _, _, _, _)
relayLoopStopsAtFirstLink(k, recs, outcomes, t, previousConnected, acc) ==
    IF k > Len(recs) THEN acc
    ELSE IF outcomes[k] = "in" THEN relayBody(recs[k], outcomes[k], t, previousConnected, acc)
    ELSE relayLoopStopsAtFirstLink(k + 1, recs, outcomes, t, previousConnected,
                                   relayBody(recs[k], outcomes[k], t, previousConnected, acc))

RECURSIVE relayLoopBreaks(_, _, _, _, _, _)
relayLoopBreaks(k, recs, outcomes, t, previousConnected, acc) ==
    IF k > Len(recs) THEN acc
    ELSE IF outcomes[k] = "fail" THEN [acc EXCEPT !.propagated = @ + 1]
    ELSE relayLoopBreaks(k + 1, recs, outcomes, t, previousConnected,
                         relayBody(recs[k], outcomes[k], t, previousConnected, acc))

\* line 112: for (const iridiumSat of iridiumSatRecs), from record k on
RECURSIVE relayLoop(_, _, _, _, _, _)
relayLoop(k, recs, outcomes, t, previousConnected, acc) ==
    IF k > Len(recs) THEN acc
    ELSE relayLoop(k + 1, recs, outcomes, t, previousConnected,
                   relayBody(recs[k], outcomes[k], t, previousConnected, acc))

blackoutLogicStaysOpen(beaconIsInCommunication, blackout, periods, t) ==
    IF ~beaconIsInCommunication
    THEN IF blackout = Null
         THEN [currentBlackout |-> Some([startTime |-> t]), blackoutPeriods |-> periods]
         ELSE [currentBlackout |-> blackout, blackoutPeriods |-> periods]
    ELSE IF blackout # Null
         THEN [currentBlackout |-> blackout,
               blackoutPeriods |-> Append(periods, closedBlackout(Head(blackout).startTime, t))]
         ELSE [currentBlackout |-> blackout, blackoutPeriods |-> periods]

blackoutLogicReopens(beaconIsInCommunication, blackout, periods, t) ==
    IF ~beaconIsInCommunication
    THEN [currentBlackout |-> Some([startTime |-> t]), blackoutPeriods |-> periods]
    ELSE IF blackout # Null
         THEN [currentBlackout |-> Null,
               blackoutPeriods |-> Append(periods, [startTime |-> Head(blackout).startTime,
                                                    endTime |-> t,
                                                    duration |-> (t - Head(blackout).startTime) \div 1000])]
         ELSE [currentBlackout |-> blackout, blackoutPeriods |-> periods]

\* lines 167-181: open a blackout when nothing is connected and none is
\* open; close the open one when something is connected
blackoutLogic(beaconIsInCommunication, blackout, periods, t) ==
    IF ~beaconIsInCommunication
    THEN IF blackout = Null
         THEN [currentBlackout |-> Some([startTime |-> t]), blackoutPeriods |-> periods]
         ELSE [currentBlackout |-> blackout, blackoutPeriods |-> periods]
    ELSE IF blackout # Null
         THEN [currentBlackout |-> Null,
               blackoutPeriods |-> Append(periods, closedBlackout(Head(blackout).startTime, t))]
         ELSE [currentBlackout |-> blackout, blackoutPeriods |-> periods]

stepBeaconFailedLogged(t) ==
    [currentTime |-> t + timeStepMs,
     previousConnected |-> previousConnectedIridiumSatIds,
     currentBlackout |-> currentBlackout,
     totalHandshakes |-> totalHandshakes,
     handshakeLog |-> handshakeLog,
     blackoutPeriods |-> blackoutPeriods,
     activeLinksLog |-> Append(activeLinksLog, {}),
     beaconTrack |-> beaconTrack,
     iridiumTracks |-> iridiumTracks,
     relayPropagated |-> 0,
     coneTests |-> 0]

stepBeaconFailedDisconnects(t) ==
    [currentTime |-> t + timeStepMs,
     previousConnected |-> {},
     currentBlackout |-> currentBlackout,
     totalHandshakes |-> totalHandshakes,
     handshakeLog |-> handshakeLog,
     blackoutPeriods |-> blackoutPeriods,
     activeLinksLog |-> activeLinksLog,
     beaconTrack |-> beaconTrack,
     iridiumTracks |-> iridiumTracks,
     relayPropagated |-> 0,
     coneTests |-> 0]

\* lines 83-88: the Beacon does not propagate; only the time advances
stepBeaconFailed(t) ==
    [currentTime |-> t + timeStepMs,
     previousConnected |-> previousConnectedIridiumSatIds,
     currentBlackout |-> currentBlackout,
     totalHandshakes |-> totalHandshakes,
     handshakeLog |-> handshakeLog,
     blackoutPeriods |-> blackoutPeriods,
     activeLinksLog |-> activeLinksLog,
     beaconTrack |-> beaconTrack,
     iridiumTracks |-> iridiumTracks,
     relayPropagated |-> 0,
     coneTests |-> 0]

stepProcessedAccumulates(t, outcomes) ==
    LET after == relayLoop(1, iridiumSatRecs, outcomes, t, previousConnectedIridiumSatIds,
                           [currentConnected |-> {},
                            beaconIsInCommunication |-> FALSE,
                            totalHandshakes |-> totalHandshakes,
                            handshakeLog |-> handshakeLog,
                            iridiumTracks |-> iridiumTracks,
                            propagated |-> 0,
                            coneTests |-> 0])
        blackout == blackoutLogic(after.beaconIsInCommunication, currentBlackout,
                                  blackoutPeriods, t)
    IN [currentTime |-> t + timeStepMs,
        previousConnected |-> previousConnectedIridiumSatIds \cup after.currentConnected,
        currentBlackout |-> blackout.currentBlackout,
        totalHandshakes |-> after.totalHandshakes,
        handshakeLog |-> after.handshakeLog,
        blackoutPeriods |-> blackout.blackoutPeriods,
        activeLinksLog |-> Append(activeLinksLog, after.currentConnected),
        beaconTrack |-> Append(beaconTrack, [timestamp |-> t]),
        iridiumTracks |-> after.iridiumTracks,
        relayPropagated |-> after.propagated,
        coneTests |-> after.coneTests]

\* lines 89-185: the Beacon propagated; outcomes[k] is what propagation and
\* the cone test give for iridiumSatRecs[k]
stepProcessed(t, outcomes) ==
    LET after == relayLoop(1, iridiumSatRecs, outcomes, t, previousConnectedIridiumSatIds,
                           [currentConnected |-> {},
                            beaconIsInCommunication |-> FALSE,
                            totalHandshakes |-> totalHandshakes,
                            handshakeLog |-> handshakeLog,
                            iridiumTracks |-> iridiumTracks,
                            propagated |-> 0,
                            coneTests |-> 0])
        blackout == blackoutLogic(after.beaconIsInCommunication, currentBlackout,
                                  blackoutPeriods, t)
    IN [currentTime |-> t + timeStepMs,
        previousConnected |-> after.currentConnected,
        currentBlackout |-> blackout.currentBlackout,
        totalHandshakes |-> after.totalHandshakes,
        handshakeLog |-> after.handshakeLog,
        blackoutPeriods |-> blackout.blackoutPeriods,
        activeLinksLog |-> Append(activeLinksLog, after.currentConnected),
        beaconTrack |-> Append(beaconTrack, [timestamp |-> t]),
        iridiumTracks |-> after.iridiumTracks,
        relayPropagated |-> after.propagated,
        coneTests |-> after.coneTests]

loopConditionStrict(t) == t < endTime

\* line 79: while (currentTime <= endTime)
loopCondition(t) == t <= endTime

\* the assignments of one loop iteration
Iterate(next, beaconOk, outcomes) ==
    /\ currentTime' = next.currentTime
    /\ previousConnectedIridiumSatIds' = next.previousConnected
    /\ currentBlackout' = next.currentBlackout
    /\ totalHandshakes' = next.totalHandshakes
    /\ handshakeLog' = next.handshakeLog
    /\ blackoutPeriods' = next.blackoutPeriods
    /\ activeLinksLog' = next.activeLinksLog
    /\ beaconTrack' = next.beaconTrack
    /\ iridiumTracks' = next.iridiumTracks
    /\ propagateCalls' = [beacon |-> propagateCalls.beacon + 1,
                          relay |-> propagateCalls.relay + next.relayPropagated]
    /\ coneTests' = coneTests + next.coneTests
    /\ trace' = Append(trace, [timestamp |-> currentTime, beaconOk |-> beaconOk,
                               outcomes |-> outcomes])
    /\ UNCHANGED <<pc, config, startTime, beaconSatRec, iridiumSatRecs, result, error,
                   fetchStarted, iridiumTLEs, elsewhere>>

\* one iteration of while (currentTime <= endTime) in which the Beacon fails
StepBeaconFailed ==
    /\ pc = "loop"
    /\ loopCondition(currentTime)
    /\ Iterate(stepBeaconFailed(currentTime), FALSE, <<>>)

\* one iteration in which the Beacon propagates
StepProcessed ==
    /\ pc = "loop"
    /\ loopCondition(currentTime)
    /\ \E outcomes \in [1..Len(iridiumSatRecs) -> Outcomes] :
         Iterate(stepProcessed(currentTime, outcomes), TRUE, outcomes)

finalizeBlackoutOneStepOn(blackout, periods, timeAfterLoop) ==
    IF blackout # Null
    THEN Append(periods, closedBlackout(Head(blackout).startTime, timeAfterLoop + timeStepMs))
    ELSE periods

finalizeBlackoutAtLastStep(blackout, periods, timeAfterLoop) ==
    IF blackout # Null
    THEN Append(periods, [startTime |-> Head(blackout).startTime,
                          endTime |-> timeAfterLoop - timeStepMs,
                          duration |-> (timeAfterLoop - timeStepMs
                                          - Head(blackout).startTime) \div 1000])
    ELSE periods

\* lines 189-196: an open blackout is closed with the time after the loop
finalizeBlackout(blackout, periods, timeAfterLoop) ==
    IF blackout # Null
    THEN Append(periods, closedBlackout(Head(blackout).startTime, timeAfterLoop))
    ELSE periods

RECURSIVE sumDurations(_)
sumDurations(periods) ==
    IF periods = <<>> THEN 0
    ELSE Head(periods).duration + sumDurations(Tail(periods))

averageOfUnguarded(total, count) == [num |-> total, den |-> count]

\* line 203: the quotient is a fraction; it is held as numerator/denominator
averageOf(total, count) ==
    IF count > 0 THEN [num |-> total, den |-> count] ELSE [num |-> 0, den |-> 1]

finalResultsStaleTotal(periods) ==
    [totalHandshakes |-> totalHandshakes,
     handshakeLog |-> handshakeLog,
     activeLinksLog |-> activeLinksLog,
     blackoutPeriods |-> periods,
     totalBlackoutDuration |-> sumDurations(blackoutPeriods),
     averageBlackoutDuration |-> averageOf(sumDurations(blackoutPeriods), Len(periods)),
     numberOfBlackouts |-> Len(periods),
     beaconTrack |-> beaconTrack,
     iridiumTracks |-> iridiumTracks]

\* lines 200-215
finalResults(periods) ==
    LET totalBlackoutDuration == sumDurations(periods)
        numberOfBlackouts == Len(periods)
    IN [totalHandshakes |-> totalHandshakes,
        handshakeLog |-> handshakeLog,
        activeLinksLog |-> activeLinksLog,
        blackoutPeriods |-> periods,
        totalBlackoutDuration |-> totalBlackoutDuration,
        averageBlackoutDuration |-> averageOf(totalBlackoutDuration, numberOfBlackouts),
        numberOfBlackouts |-> numberOfBlackouts,
        beaconTrack |-> beaconTrack,
        iridiumTracks |-> iridiumTracks]

\* lines 188-215: the loop condition is false; finalise and return
Finish ==
    /\ pc = "loop"
    /\ ~loopCondition(currentTime)
    /\ blackoutPeriods' = finalizeBlackout(currentBlackout, blackoutPeriods, currentTime)
    /\ result' = Some(finalResults(blackoutPeriods'))
    /\ pc' = "done"
    /\ UNCHANGED <<config, startTime, beaconSatRec, iridiumSatRecs, totalHandshakes,
                   handshakeLog, beaconTrack, iridiumTracks, activeLinksLog, currentTime,
                   previousConnectedIridiumSatIds, currentBlackout, error, fetchStarted,
                   propagateCalls, coneTests, trace, iridiumTLEs, elsewhere>>

Next ==
    \/ InitializeBeacon
    \/ FetchResolved
    \/ StepBeaconFailed
    \/ StepProcessed
    \/ Finish

Spec == Init /\ [][Next]_vars

\* ------------------------------------------------- the run to its return
\* runSimulation validates neither simulationTimeStepSec nor
\* simulationDurationHours (lines 68-70 compute endTime and timeStepMs from
\* whatever the config holds), so here the step ranges over 0 as well.  Past
\* the await the function is synchronous: every enabled step is taken.
AnyStepConfigs ==
    { [beaconParams |-> [type |-> "SunSynchronous", altitude |-> 700,
                         localSolarTimeAtDescendingNode |-> 0, inclination |-> 0,
                         raan |-> Null],
       iridiumFovDeg |-> 10, beaconFovDeg |-> 62,
       simulationDurationHours |-> d, simulationTimeStepSec |-> s] :
        d \in 0..MaxDurationUnits, s \in 0..MaxTimeStepSec }

\* a run is followed for this many iterations; with a step of one second
\* or more the loop condition is false after at most three
MaxIterations == 4

AnyStepInit ==
    /\ pc = "start"
    /\ config \in AnyStepConfigs
    /\ startTime \in StartTimes
    /\ beaconSatRec = "unset"
    /\ iridiumSatRecs = <<>>
    /\ totalHandshakes = 0
    /\ handshakeLog = <<>>
    /\ blackoutPeriods = <<>>
    /\ beaconTrack = <<>>
    /\ iridiumTracks = [id \in {} |-> <<>>]
    /\ activeLinksLog = <<>>
    /\ currentTime = startTime
    /\ previousConnectedIridiumSatIds = {}
    /\ currentBlackout = Null
    /\ result = Null
    /\ error = Null
    /\ fetchStarted = FALSE
    /\ propagateCalls = [beacon |-> 0, relay |-> 0]
    /\ coneTests = 0
    /\ trace = <<>>
    /\ iridiumTLEs = Null
    /\ pending = <<>>
    /\ returned = <<>>
    /\ call = Null
    /\ app = Null

\* the awaited fetch resolves with at most one relay
AnyStepFetchResolved ==
    /\ pc = "fetching"
    /\ \E tles \in { l \in TleLists : Len(l) <= 1 } : fetchResolves(tles)

AnyStepNext ==
    \/ InitializeBeacon
    \/ AnyStepFetchResolved
    \/ Len(trace) < MaxIterations /\ StepBeaconFailed
    \/ Len(trace) < MaxIterations /\ StepProcessed
    \/ Finish

SpecAnyStep == AnyStepInit /\ [][AnyStepNext]_vars /\ WF_vars(AnyStepNext)

\* ------------------------------------------------------- two invocations
\* runSimulation is an async function with a single await, the relay fetch
\* (line 39).  A second invocation can start while the first is suspended
\* there, and either fetch may resolve first; past its await an invocation
\* runs to its return without yielding.  The run variables above are those
\* of the invocation that is executing; a suspended invocation is the frame
\* of what it has declared so far.
PairConfigs ==
    { [beaconParams |-> [type |-> "SunSynchronous", altitude |-> 700,
                         localSolarTimeAtDescendingNode |-> 0, inclination |-> 0,
                         raan |-> Null],
       iridiumFovDeg |-> 10, beaconFovDeg |-> b,
       simulationDurationHours |-> 2, simulationTimeStepSec |-> 1] : b \in {30, 62} }

\* lists of differently named element sets that all initialise, in any order
PairTleLists ==
    { l \in UNION { [1..n -> [name : SatNames, parses : {TRUE}]] :
                      n \in 0..Cardinality(SatNames) } :
        \A j, k \in 1..Len(l) : l[j].name = l[k].name => j = k }

\* the first invocation has the form's default Beacon field of view
PairInit ==
    /\ pc = "start"
    /\ config \in { c \in PairConfigs : c.beaconFovDeg = 62 }
    /\ startTime \in StartTimes
    /\ beaconSatRec = "unset"
    /\ iridiumSatRecs = <<>>
    /\ totalHandshakes = 0
    /\ handshakeLog = <<>>
    /\ blackoutPeriods = <<>>
    /\ beaconTrack = <<>>
    /\ iridiumTracks = [id \in {} |-> <<>>]
    /\ activeLinksLog = <<>>
    /\ currentTime = startTime
    /\ previousConnectedIridiumSatIds = {}
    /\ currentBlackout = Null
    /\ result = Null
    /\ error = Null
    /\ fetchStarted = FALSE
    /\ propagateCalls = [beacon |-> 0, relay |-> 0]
    /\ coneTests = 0
    /\ trace = <<>>
    /\ iridiumTLEs = Null
    /\ pending = <<>>
    /\ returned = <<>>
    /\ call = Null
    /\ app = Null

\* what an invocation suspended at line 39 holds
frame == [config |-> config, startTime |-> startTime, beaconSatRec |-> beaconSatRec]

\* the history of an invocation starts empty
NoHistory ==
    /\ result' = Null
    /\ error' = Null
    /\ propagateCalls' = [beacon |-> 0, relay |-> 0]
    /\ coneTests' = 0
    /\ trace' = <<>>
    /\ iridiumTLEs' = Null

PairFetchResolved ==
    /\ pc = "fetching"
    /\ \E tles \in PairTleLists : fetchResolves(tles)

\* the promise of the executing invocation settles (lines 36, 41, 49, 205)
Settle ==
    /\ pc \in {"done", "rejected"}
    /\ returned' = Append(returned,
                          [config |-> config, startTime |-> startTime,
                           iridiumTLEs |-> iridiumTLEs, trace |-> trace,
                           result |-> result, error |-> error,
                           whileSuspended |-> pending])
    /\ pc' = "settled"
    /\ UNCHANGED <<config, startTime, beaconSatRec, loopVars, result, error, fetchStarted,
                   propagateCalls, coneTests, trace, iridiumTLEs, pending, call, app>>

\* runSimulation is called a second time, while the first invocation is
\* suspended at its await or after it has settled
Invoke ==
    /\ pc \in {"fetching", "settled"}
    /\ pending = <<>>
    /\ pc = "fetching" => returned = <<>>
    /\ pc = "settled" => Len(returned) = 1
    /\ pending' = IF pc = "fetching" THEN <<frame>> ELSE <<>>
    /\ pc' = "start"
    /\ config' \in PairConfigs
    /\ startTime' \in StartTimes
    /\ beaconSatRec' = "unset"
    /\ fetchStarted' = FALSE
    /\ NoHistory
    /\ UNCHANGED <<loopVars, returned, call, app>>

\* the fetch of the suspended invocation resolves while the other one is
\* itself suspended or has settled: the suspended frame becomes the
\* executing one
Resume ==
    /\ pc \in {"fetching", "settled"}
    /\ pending # <<>>
    /\ pending' = IF pc = "fetching" THEN <<frame>> ELSE <<>>
    /\ pc' = "fetching"
    /\ config' = Head(pending).config
    /\ startTime' = Head(pending).startTime
    /\ beaconSatRec' = Head(pending).beaconSatRec
    /\ fetchStarted' = TRUE
    /\ NoHistory
    /\ UNCHANGED <<loopVars, returned, call, app>>

PairNext ==
    \/ InitializeBeacon
    \/ PairFetchResolved
    \/ StepBeaconFailed
    \/ StepProcessed
    \/ Finish
    \/ Settle
    \/ Invoke
    \/ Resume

SpecPair == PairInit /\ [][PairNext]_vars

\* ------------------------------------------------------------ cone geometry
\* Coordinates are whole numbers (positions in units of 100 km); a component
\* of a normalised vector is held in thousandths, an angle in microradians.
UnitScale == 1000
PiMicro == 3141593
IRIDIUM_FOV_DEGREES == 62

Vec(a, b, c) == [x |-> a, y |-> b, z |-> c]

\* Math.sqrt on the sums of squares that occur (all perfect squares, below
\* 2^31 and so with a root of at most 46340)
Sqrt(n) == CHOOSE r \in 0..46340 : r * r = n

dotProduct(v1, v2) == v1.x * v2.x + v1.y * v2.y + v1.z * v2.z

magnitude(v) == Sqrt(v.x * v.x + v.y * v.y + v.z * v.z)

scale(v, scalar) == Vec(v.x * scalar, v.y * scalar, v.z * scalar)

normalizeDefaultsToX(v) ==
    LET mag == magnitude(v)
    IN IF mag = 0 THEN Vec(UnitScale, 0, 0)
       ELSE Vec((v.x * UnitScale) \div mag, (v.y * UnitScale) \div mag,
                (v.z * UnitScale) \div mag)

\* geometry.ts lines 14-23: a zero magnitude returns the zero vector
normalize(v) ==
    LET mag == magnitude(v)
    IN IF mag = 0 THEN Vec(0, 0, 0)
       ELSE Vec((v.x * UnitScale) \div mag, (v.y * UnitScale) \div mag,
                (v.z * UnitScale) \div mag)

getNadirVector(satelliteEciPos) == normalize(scale(satelliteEciPos, -1))

\* (degrees / 2.0) * (Math.PI / 180.0)
halfAngleRadians(fovDeg) == (fovDeg * PiMicro) \div 360

IRIDIUM_HALF_FOV_RADIANS == halfAngleRadians(IRIDIUM_FOV_DEGREES)

\* simulationEngine.ts line 56
iridiumHalfAngleRad(cfg) == halfAngleRadians(cfg.iridiumFovDeg)

\* geometry.ts lines 117-127: two parameters; the half-angle is the constant
createIridiumCone(iridiumEciPos, satelliteId) ==
    [tip |-> iridiumEciPos,
     axis |-> getNadirVector(iridiumEciPos),
     halfAngle |-> IRIDIUM_HALF_FOV_RADIANS,
     satelliteId |-> satelliteId]

\* simulationEngine.ts line 137 passes (position, iridiumHalfAngleRad, id):
\* the second argument binds to satelliteId, the third to no parameter
engineIridiumCone(cfg, iridiumCurrentPosEci, id) ==
    createIridiumCone(iridiumCurrentPosEci, iridiumHalfAngleRad(cfg))

subtract(v1, v2) == Vec(v1.x - v2.x, v1.y - v2.y, v1.z - v2.z)

crossProduct(v1, v2) ==
    Vec(v1.y * v2.z - v1.z * v2.y,
        v1.z * v2.x - v1.x * v2.z,
        v1.x * v2.y - v1.y * v2.x)

add(v1, v2) == Vec(v1.x + v2.x, v1.y + v2.y, v1.z + v2.z)

BEACON_ANTENNA_FOV_DEGREES == 62

BEACON_ANTENNA_HALF_FOV_RADIANS == halfAngleRadians(BEACON_ANTENNA_FOV_DEGREES)

Abs(n) == IF n < 0 THEN -n ELSE n

\* a vector of products of two quantities in thousandths, in thousandths
thousandths(v) == Vec(v.x \div UnitScale, v.y \div UnitScale, v.z \div UnitScale)

\* geometry.ts lines 138-202, for a velocity in thousandths of km/s.  On the
\* inputs tried every magnitude is exact, so a magnitude is below 1e-9
\* exactly when it is 0.  The branch at line 173 crosses the zenith with the
\* global Z axis when both |zenith.x| and |zenith.y| are below 0.9, with the
\* global X axis otherwise.
createBeaconAntennaCones(beaconEciPos, beaconEciVelocity) ==
    LET zenithVector == normalize(beaconEciPos)
        velocityComponentParallelToZenith ==
            thousandths(scale(zenithVector,
                              dotProduct(beaconEciVelocity, zenithVector) \div UnitScale))
        projected == subtract(beaconEciVelocity, velocityComponentParallelToZenith)
        magHorizontalVelocity == magnitude(projected)
        arbitraryHorizontalDir ==
            IF /\ Abs(zenithVector.x) * 10 < 9 * UnitScale
               /\ Abs(zenithVector.y) * 10 < 9 * UnitScale
            THEN normalize(crossProduct(zenithVector, Vec(0, 0, 1)))
            ELSE normalize(crossProduct(zenithVector, Vec(1, 0, 0)))
        horizontalVelocityComponent ==
            IF magHorizontalVelocity = 0 THEN arbitraryHorizontalDir ELSE projected
        antennaAxis1 == normalize(horizontalVelocityComponent)
        antennaAxis2 == scale(antennaAxis1, -1)
    IN IF magnitude(zenithVector) = 0 THEN <<>>
       ELSE IF magHorizontalVelocity = 0 /\ magnitude(arbitraryHorizontalDir) = 0 THEN <<>>
       ELSE << [tip |-> beaconEciPos, axis |-> antennaAxis1,
                halfAngle |-> BEACON_ANTENNA_HALF_FOV_RADIANS,
                satelliteId |-> "Beacon-Ant1"],
               [tip |-> beaconEciPos, axis |-> antennaAxis2,
                halfAngle |-> BEACON_ANTENNA_HALF_FOV_RADIANS,
                satelliteId |-> "Beacon-Ant2"] >>

\* Math.cos of a half-angle, in millionths, for the fields of view that are
\* tried (2, 62, 120, 180, 240 and 360 degrees)
cosine(halfAngle) ==
    CASE halfAngle = halfAngleRadians(2) -> 999848
      [] halfAngle = halfAngleRadians(62) -> 857167
      [] halfAngle = halfAngleRadians(120) -> 500000
      [] halfAngle = halfAngleRadians(180) -> 0
      [] halfAngle = halfAngleRadians(240) -> -500000
      [] halfAngle = halfAngleRadians(360) -> -(UnitScale * UnitScale)

\* Math.max(-1, Math.min(1, cosAngle)) on a cosine in millionths
clampCosine(cosAngle) ==
    IF cosAngle > UnitScale * UnitScale THEN UnitScale * UnitScale
    ELSE IF cosAngle < -(UnitScale * UnitScale) THEN -(UnitScale * UnitScale)
    ELSE cosAngle

\* Math.acos(clampedCosAngle) <= halfAngle.  Math.acos falls from pi at -1
\* to 0 at 1, so for a half-angle between 0 and pi the comparison of the
\* angles is the opposite comparison of their cosines.
angleWithin(clampedCosAngle, halfAngle) == clampedCosAngle >= cosine(halfAngle)

isPointInConeFromTarget(targetPoint, cone) ==
    LET vectorToTarget == subtract(cone.tip, targetPoint)
        normalizedVectorToTarget == normalize(vectorToTarget)
        cosAngle == dotProduct(cone.axis, normalizedVectorToTarget)
    IN angleWithin(clampCosine(cosAngle), cone.halfAngle)

isPointInConeWithinReach(targetPoint, cone) ==
    LET vectorToTarget == subtract(targetPoint, cone.tip)
        normalizedVectorToTarget == normalize(vectorToTarget)
        cosAngle == dotProduct(cone.axis, normalizedVectorToTarget)
    IN /\ angleWithin(clampCosine(cosAngle), cone.halfAngle)
       /\ magnitude(vectorToTarget) * UnitScale <= 10 * magnitude(cone.axis)

\* geometry.ts lines 89-107.  The axis of the cone is used as it is given
\* ("should already be normalized"); the vector to the target is normalised
\* here.  The product of two vectors in thousandths is in millionths.
isPointInCone(targetPoint, cone) ==
    LET vectorToTarget == subtract(targetPoint, cone.tip)
        normalizedVectorToTarget == normalize(vectorToTarget)
        cosAngle == dotProduct(cone.axis, normalizedVectorToTarget)
    IN angleWithin(clampCosine(cosAngle), cone.halfAngle)

\* ------------------------------------------------------------- propagation
\* What satellite.propagate (satellite.js, not part of this repository) may
\* hand back: it throws, returns false, returns null, or returns an object
\* whose position and velocity are false, missing, or vectors.  A component
\* of a vector is one of the kinds of JavaScript number, or undefined.  The
\* library signals a non-zero satrec.error by returning false or false
\* members.  gstime / eciToGeodetic may throw as well.
Components == {"finite", "NaN", "Infinity", "-Infinity", "undefined"}

\* the vectors tried: at most one component is not an ordinary number
EciVectors ==
    { v \in [kind : {"vector"}, x : Components, y : Components, z : Components] :
        Cardinality({ c \in {"x", "y", "z"} : v[c] # "finite" }) <= 1 }

Missing(k) == [kind |-> k]

EciMembers == {Missing("false"), Missing("undefined")} \cup EciVectors

PropagatorOutputs ==
    { [kind |-> k, error |-> e, position |-> Missing("undefined"),
       velocity |-> Missing("undefined")] :
        k \in {"throws", "false", "null"}, e \in {0, 6} }
    \cup
    { [kind |-> "object", error |-> 0, position |-> pos, velocity |-> vel] :
        pos \in EciMembers, vel \in EciMembers }
    \cup
    { [kind |-> "object", error |-> 6, position |-> Missing("false"),
        velocity |-> Missing("false")] }

\* JavaScript !m for a member that is false, undefined or an object
falsy(m) == m.kind \in {"false", "undefined"}

\* c == null || isNaN(c)
nullOrNaN(c) == c = "undefined" \/ c = "NaN"

propagateSatelliteUncaught(satrec, lib, geodeticThrows) ==
    IF ~satrec THEN [kind |-> "null"]
    ELSE IF lib.kind \in {"throws", "null"} THEN [kind |-> "throws"]
    ELSE IF lib.kind = "false" THEN [kind |-> "null"]
    ELSE IF falsy(lib.position) \/ falsy(lib.velocity) THEN [kind |-> "null"]
    ELSE IF nullOrNaN(lib.position.x) \/ nullOrNaN(lib.position.y)
              \/ nullOrNaN(lib.position.z) THEN [kind |-> "null"]
    ELSE IF geodeticThrows THEN [kind |-> "throws"]
    ELSE [kind |-> "value", positionEci |-> lib.position, velocityEci |-> lib.velocity]

\* geometry.ts lines 245-296.  satrec: the record is not null; lib: what
\* satellite.propagate does; geodeticThrows: gstime or eciToGeodetic throws.
\* A null return of the library makes the member access at line 262 throw.
propagateSatellite(satrec, lib, geodeticThrows) ==
    IF ~satrec THEN [kind |-> "null"]
    ELSE IF lib.kind \in {"throws", "null"} THEN [kind |-> "null"]
    ELSE IF lib.kind = "false" THEN [kind |-> "null"]
    ELSE IF falsy(lib.position) \/ falsy(lib.velocity) THEN [kind |-> "null"]
    ELSE IF nullOrNaN(lib.position.x) \/ nullOrNaN(lib.position.y)
              \/ nullOrNaN(lib.position.z) THEN [kind |-> "null"]
    ELSE IF geodeticThrows THEN [kind |-> "null"]
    ELSE [kind |-> "value", positionEci |-> lib.position, velocityEci |-> lib.velocity]

\* ------------------------------------------------------ element-set lines
\* A string is a sequence of one-character strings.  A number that is
\* formatted with toFixed(d) is held as its whole part and its d-digit
\* fraction, [whole |-> w, fraction |-> f].
DigitChars == <<"0", "1", "2", "3", "4", "5", "6", "7", "8", "9">>

\* Number.prototype.toString / template-literal conversion of a whole number
RECURSIVE toDigits(_)
toDigits(n) ==
    IF n < 10 THEN <<DigitChars[n + 1]>>
    ELSE toDigits(n \div 10) \o <<DigitChars[(n % 10) + 1]>>

RECURSIVE padStart(_, _, _)
padStart(str, targetLength, padChar) ==
    IF Len(str) >= targetLength THEN str
    ELSE padStart(<<padChar>> \o str, targetLength, padChar)

RECURSIVE padEnd(_, _, _)
padEnd(str, targetLength, padChar) ==
    IF Len(str) >= targetLength THEN str
    ELSE padEnd(str \o <<padChar>>, targetLength, padChar)

toFixed(number, fractionDigits) ==
    toDigits(number.whole) \o <<".">> \o padStart(toDigits(number.fraction), fractionDigits, "0")

\* String.prototype.substring(0, end)
substring(str, end) == SubSeq(str, 1, IF Len(str) < end THEN Len(str) ELSE end)

\* String.prototype.slice(-2)
lastTwo(str) == SubSeq(str, IF Len(str) < 2 THEN 1 ELSE Len(str) - 1, Len(str))

\* geometry.ts lines 570-574: parseInt of a digit, 1 for '-', nothing else
checksumValue(char) ==
    IF \E d \in 0..9 : DigitChars[d + 1] = char
    THEN CHOOSE d \in 0..9 : DigitChars[d + 1] = char
    ELSE IF char = "-" THEN 1 ELSE 0

\* the loop of lines 568-575 from index i (counted from 0), bounded by
\* line.length - 1
RECURSIVE checksumLoop(_, _, _)
checksumLoop(line, i, sum) ==
    IF i < Len(line) - 1
    THEN checksumLoop(line, i + 1, sum + checksumValue(line[i + 1]))
    ELSE sum

\* geometry.ts lines 566-577
calculateTLEChecksum(line) == checksumLoop(line, 0, 0) % 10

formatEpochDayForTLE(epochDay) == padStart(toFixed(epochDay, 8), 12, " ")

formatAngleForTLE(angleDeg) == padStart(toFixed(angleDeg, 4), 8, " ")

\* (ecc * 1e7).toFixed(0), for the eccentricity in units of 1e-7
formatEccentricityForTLE(eccE7) == padStart(toDigits(eccE7), 7, "0")

formatMeanMotionForTLE(mmRevPerDay) == padStart(toFixed(mmRevPerDay, 8), 11, " ")

TLE_ZERO_NDOT == <<" ", ".", "0", "0", "0", "0", "0", "0", "0", "0">>
TLE_ZERO_NDDOT == <<" ", "0", "0", "0", "0", "0", "-", "0">>
TLE_ZERO_BSTAR == <<" ", "0", "0", "0", "0", "0", "-", "0">>

\* geometry.ts lines 664-694 of createTLEStringsFromBeaconParams: the two
\* lines from the computed elements.  satNumStr has its default "99999";
\* ecco is 0.0001, argpoDeg and moDeg are 0.
tleLines(year, epochdays, inclinationDeg, raanDeg, meanMotionRevPerDay) ==
    LET zero == [whole |-> 0, fraction |-> 0]
        satNumPadded == padEnd(<<"9", "9", "9", "9", "9">>, 5, " ")
        launchYearLastTwoDigits == padStart(lastTwo(toDigits(year)), 2, "0")
        intlDesig == padEnd(launchYearLastTwoDigits \o <<"0", "0", "1", "A">>, 8, " ")
        epochYrStr == padStart(toDigits(year % 100), 2, "0")
        epochDayStr == formatEpochDayForTLE(epochdays)
        elementSetNumPadded == padStart(<<"1">>, 4, " ")
        revNumPadded == padStart(<<"1">>, 5, " ")
        incStr == formatAngleForTLE(inclinationDeg)
        raanStr == formatAngleForTLE(raanDeg)
        eccStr == formatEccentricityForTLE(1000)
        argpoStr == formatAngleForTLE(zero)
        moStr == formatAngleForTLE(zero)
        meanMotionStr == formatMeanMotionForTLE(meanMotionRevPerDay)
        line1 == <<"1", " ">> \o satNumPadded \o <<"U", " ">> \o intlDesig \o <<" ">>
                   \o epochYrStr \o epochDayStr \o TLE_ZERO_NDOT \o <<" ">>
                   \o TLE_ZERO_NDDOT \o <<" ">> \o TLE_ZERO_BSTAR \o <<" ", "0", " ">>
                   \o elementSetNumPadded
        line2 == <<"2", " ">> \o satNumPadded \o <<" ">> \o incStr \o <<" ">> \o raanStr
                   \o <<" ">> \o eccStr \o <<" ">> \o argpoStr \o <<" ">> \o moStr
                   \o <<" ">> \o meanMotionStr \o revNumPadded
    IN [tle1 |-> substring(line1, 68) \o toDigits(calculateTLEChecksum(line1)),
        tle2 |-> substring(line2, 68) \o toDigits(calculateTLEChecksum(line2))]

\* ------------------------------------------- sun-synchronous inclination
\* The physical constants (constants/physicalConstants.ts) at the precision
\* the arithmetic keeps: GM (398600.8) in km^3/s^2, the equatorial radius
\* (6378.135) in tenths of a km, J2 (0.00108263) in units of 1e-8, the day
\* (1440.0 * 60.0) in seconds.
GM_EARTH == 398601
RADIUS_EARTH_KM == 63781
J2_EARTH == 108263
SECONDS_PER_DAY == 86400

\* num / den * by, the remainder of num / den contributing its digits
quotient(num, den, by) == (num \div den) * by + ((num % den) * by) \div den

\* Math.sqrt rounded down to a whole number
SqrtFloor(m) == CHOOSE r \in 0..46339 : r * r <= m /\ m < (r + 1) * (r + 1)

\* 365.2422 * SECONDS_PER_DAY, in thousands of seconds
yearKiloSeconds == ((3652422 \div 100) * (SECONDS_PER_DAY \div 100)) \div 1000

sunSynchronousCosinePrograde(altitude) ==
    LET a == RADIUS_EARTH_KM + altitude * 10
        n_rad_per_sec ==
            SqrtFloor(quotient(quotient(quotient(GM_EARTH, a, 10000) * 10000, a, 10000),
                               a, 10000) * 10)
        ratio == quotient(RADIUS_EARTH_KM * 10000, a, 1)
        Omega_dot_SSO == quotient(2 * PiMicro, yearKiloSeconds, 10000)
        denominator == ((n_rad_per_sec * J2_EARTH) \div 100000) * ((ratio * ratio) \div 10000)
    IN (((Omega_dot_SSO * 2) \div 3) * 1000) \div (denominator \div 10000)

\* geometry.ts lines 636 and 646-653: cos_i before the clamp, in millionths,
\* for an altitude in km.
\*   a                 semi-major axis, in tenths of a km
\*   n_rad_per_sec     Math.sqrt(mu / a^3), in 1e-7 rad/s (mu / a^3 is taken
\*                     by three divisions, in 1e-13 s^-2)
\*   ratio             R_eq / a in 1e-4; its square is Math.pow(R_eq / a, 2)
\*   Omega_dot_SSO     2 pi / (365.2422 days), in 1e-13 rad/s
\*   denominator       n * J2 * (R_eq / a)^2, in 1e-14; the factor
\*                     (1 / (1 - e^2))^2 with e = 0.0001 is 1.00000002, which
\*                     is 1 at this precision
sunSynchronousCosine(altitude) ==
    LET a == RADIUS_EARTH_KM + altitude * 10
        n_rad_per_sec ==
            SqrtFloor(quotient(quotient(quotient(GM_EARTH, a, 10000) * 10000, a, 10000),
                               a, 10000) * 10)
        ratio == quotient(RADIUS_EARTH_KM * 10000, a, 1)
        Omega_dot_SSO == quotient(2 * PiMicro, yearKiloSeconds, 10000)
        denominator == ((n_rad_per_sec * J2_EARTH) \div 100000) * ((ratio * ratio) \div 10000)
    IN -((((Omega_dot_SSO * 2) \div 3) * 1000) \div (denominator \div 10000))

\* ------------------------------------------------- the relay element sets
\* tleService.ts.  The text of a response is held as its lines, each already
\* trimmed; a line is a name, a first or a second element line, or blank.
FALLBACK_NAME == "IRIDIUM 140 (FALLBACK)"
FALLBACK_LINE1 == "1 25879U 99046B   24137.58611841  .00000105  00000+0  48098-4 0  9997"
FALLBACK_LINE2 == "2 25879  86.3999 218.5490 0001663  80.1715 280.0000 14.34159983269165"

\* line.startsWith('1 ') and line.startsWith('2 ') on the lines that occur
startsWith1(line) == line = FALLBACK_LINE1
startsWith2(line) == line = FALLBACK_LINE2

\* tleService.ts lines 43-76: the loop of parseTleFile from index i
RECURSIVE parseLoop(_, _, _)
parseLoop(lines, i, tles) ==
    IF ~(i < Len(lines)) THEN tles
    ELSE LET nameLine == lines[i + 1]
         IN IF nameLine = "" \/ startsWith1(nameLine) \/ startsWith2(nameLine)
            THEN parseLoop(lines, i + 1, tles)
            ELSE IF i + 2 < Len(lines)
            THEN IF startsWith1(lines[i + 2]) /\ startsWith2(lines[i + 3])
                 THEN parseLoop(lines, i + 3,
                                Append(tles, [name |-> nameLine, line1 |-> lines[i + 2],
                                              line2 |-> lines[i + 3]]))
                 ELSE parseLoop(lines, i + 1, tles)
            ELSE tles

parseTleFile(lines) == parseLoop(lines, 0, <<>>)

fallbackTLEs ==
    <<[name |-> FALLBACK_NAME, line1 |-> FALLBACK_LINE1, line2 |-> FALLBACK_LINE2]>>

fetchIridiumTLEsUncaught(response) ==
    IF response.kind = "rejected" \/ response.kind = "notText"
    THEN [settled |-> "rejected", value |-> <<>>]
    ELSE [settled |-> "fulfilled", value |-> parseTleFile(response.lines)]

\* tleService.ts lines 13-38.  response: what axios.get does.  It rejects
\* (no network, an HTTP error status), or resolves with a body that is not
\* text, on which trim() throws inside the try block, or resolves with text.
fetchIridiumTLEs(response) ==
    IF response.kind = "rejected" \/ response.kind = "notText"
    THEN [settled |-> "fulfilled", value |-> fallbackTLEs]
    ELSE [settled |-> "fulfilled", value |-> parseTleFile(response.lines)]

\* ------------------------------------------------------ the App component
\* App.tsx.  app holds the component's state variables; the state updates of
\* one synchronous stretch of a handler are committed together (one render),
\* and the interval of the playback effect (lines 195-210) exists exactly
\* while its condition holds, with the maxTimeIndex of that render.
\* longest beaconTrack of a result
MaxTrackLength == 3
\* invocations of handleFormSubmit that can be suspended at once
MaxRuns == 2

\* simulationEngine.ts lines 36, 41, 49: the messages runSimulation rejects with
ErrorMessages ==
    { "Failed to initialize Beacon satellite record.",
      "No Iridium TLEs fetched. Cannot run simulation.",
      "Failed to initialize any Iridium satellite records from TLEs." }

\* what a rejection carries: an Error with a message, or a value without one
Rejections == { Some(m) : m \in ErrorMessages } \cup {Null}

\* what runSimulation(config) resolves with: a track of n samples (none when
\* the Beacon failed at every step); submitted records the config it ran for
ResultsFor(c) ==
    { [beaconTrack |-> [i \in 1..n |-> [timestamp |-> i]], submitted |-> c] :
        n \in 0..MaxTrackLength }

\* lines 23-54: the useState initial values of the run and of the playback
\* (the panels, the selection and the console are left out)
initialApp ==
    [simulationResults |-> Null,
     isLoading |-> FALSE,
     error |-> Null,
     currentConfigForDisplay |-> Null,
     currentTimeIndex |-> 0,
     visualizationMode |-> "2D",
     isPlaying |-> FALSE,
     runs |-> <<>>,
     last |-> "mount"]

\* line 170
maxTimeIndex(a) ==
    IF a.simulationResults # Null /\ Len(Head(a.simulationResults).beaconTrack) > 0
    THEN Len(Head(a.simulationResults).beaconTrack) - 1
    ELSE 0

\* line 172
hasSimulationRun(a) == a.simulationResults # Null

\* line 197: the condition under which the effect holds an interval
intervalRunning(a) == a.isPlaying /\ hasSimulationRun(a) /\ maxTimeIndex(a) > 0

otherMode(mode) == IF mode = "2D" THEN "3D" ELSE "2D"

submitEnabledAlways(a) == TRUE

\* OrbitInputForm.tsx lines 192-196: the submit button is disabled while
\* isLoading
submitEnabled(a) == ~a.isLoading

\* handleFormSubmit, lines 63-75: up to the await
startRun(a, c) ==
    [a EXCEPT !.isLoading = TRUE,
              !.simulationResults = Null,
              !.error = Null,
              !.currentConfigForDisplay = Null,
              !.currentTimeIndex = 0,
              !.isPlaying = FALSE,
              !.runs = Append(@, c),
              !.last = "submit"]

without(runs, i) == SubSeq(runs, 1, i - 1) \o SubSeq(runs, i + 1, Len(runs))

\* handleFormSubmit, lines 76-78 and 83-84: the awaited run resolved
runResolved(a, i, results) ==
    [a EXCEPT !.simulationResults = Some(results),
              !.currentConfigForDisplay = Some(a.runs[i]),
              !.isLoading = FALSE,
              !.visualizationMode = otherMode(@),
              !.runs = without(@, i),
              !.last = "resolved"]

\* line 81: e.message || 'An unexpected error occurred during simulation.'
messageOf(e) ==
    IF e # Null /\ Head(e) # ""
    THEN Head(e)
    ELSE "An unexpected error occurred during simulation."

\* handleFormSubmit, lines 79-84: the awaited run rejected
runRejected(a, i, e) ==
    [a EXCEPT !.error = Some(messageOf(e)),
              !.isLoading = FALSE,
              !.visualizationMode = otherMode(@),
              !.runs = without(@, i),
              !.last = "rejected"]

\* lines 174-180
handlePlayPause(a) ==
    IF ~hasSimulationRun(a) THEN a
    ELSE [a EXCEPT !.currentTimeIndex =
                       IF a.currentTimeIndex >= maxTimeIndex(a) /\ ~a.isPlaying
                          /\ maxTimeIndex(a) > 0
                       THEN 0 ELSE @,
                   !.isPlaying = ~a.isPlaying,
                   !.last = "playPause"]

\* lines 182-186
handleSliderChange(a, value) ==
    IF ~hasSimulationRun(a) THEN a
    ELSE [a EXCEPT !.isPlaying = FALSE, !.currentTimeIndex = value, !.last = "slider"]

\* lines 188-192
handleResetTime(a) ==
    IF ~hasSimulationRun(a) THEN a
    ELSE [a EXCEPT !.isPlaying = FALSE, !.currentTimeIndex = 0, !.last = "reset"]

intervalTickUnclamped(a) ==
    [a EXCEPT !.currentTimeIndex = @ + 1, !.last = "tick"]

\* lines 198-207: the interval's callback
intervalTick(a) ==
    LET nextIndex == a.currentTimeIndex + 1
    IN IF nextIndex > maxTimeIndex(a)
       THEN [a EXCEPT !.isPlaying = FALSE, !.currentTimeIndex = maxTimeIndex(a),
                      !.last = "tick"]
       ELSE [a EXCEPT !.currentTimeIndex = nextIndex, !.last = "tick"]

AppInit ==
    /\ pc = "app"
    /\ app = initialApp
    /\ config = CHOOSE c \in Configs : TRUE
    /\ startTime \in StartTimes
    /\ beaconSatRec = "unset"
    /\ iridiumSatRecs = <<>>
    /\ totalHandshakes = 0
    /\ handshakeLog = <<>>
    /\ blackoutPeriods = <<>>
    /\ beaconTrack = <<>>
    /\ iridiumTracks = [id \in {} |-> <<>>]
    /\ activeLinksLog = <<>>
    /\ currentTime = startTime
    /\ previousConnectedIridiumSatIds = {}
    /\ currentBlackout = Null
    /\ result = Null
    /\ error = Null
    /\ fetchStarted = FALSE
    /\ propagateCalls = [beacon |-> 0, relay |-> 0]
    /\ coneTests = 0
    /\ trace = <<>>
    /\ iridiumTLEs = Null
    /\ pending = <<>>
    /\ returned = <<>>
    /\ call = Null

Commit(next) ==
    /\ app' = next
    /\ UNCHANGED <<pc, config, startTime, beaconSatRec, loopVars, result, error,
                   fetchStarted, propagateCalls, coneTests, trace, iridiumTLEs,
                   pending, returned, call>>

\* the form is submitted with valid fields
Submit ==
    /\ submitEnabled(app)
    /\ Len(app.runs) < MaxRuns
    /\ \E c \in PairConfigs : Commit(startRun(app, c))

RunResolved ==
    \E i \in 1..Len(app.runs) : \E results \in ResultsFor(app.runs[i]) :
        Commit(runResolved(app, i, results))

RunRejected ==
    \E i \in 1..Len(app.runs) : \E e \in Rejections : Commit(runRejected(app, i, e))

\* line 255: the playback controls are rendered once there are results
PlayPause == hasSimulationRun(app) /\ Commit(handlePlayPause(app))

\* the range input (min 0, max maxTimeIndex) is disabled when maxTimeIndex is 0
SliderChange ==
    /\ hasSimulationRun(app)
    /\ maxTimeIndex(app) # 0
    /\ \E value \in 0..maxTimeIndex(app) : Commit(handleSliderChange(app, value))

ResetTime == hasSimulationRun(app) /\ Commit(handleResetTime(app))

TimerTick == intervalRunning(app) /\ Commit(intervalTick(app))

AppNext ==
    \/ Submit
    \/ RunResolved
    \/ RunRejected
    \/ PlayPause
    \/ SliderChange
    \/ ResetTime
    \/ TimerTick

SpecApp == AppInit /\ [][AppNext]_vars

\* ------------------------------------------- the pure functions on their own
\* Each behaviour of SpecUnits applies one function to one input: call is
\* [fn, input, output], output being Null until the function has returned.
SynthesisParams ==
    { [type |-> "SunSynchronous", altitude |-> a, localSolarTimeAtDescendingNode |-> l,
       inclination |-> 0, raan |-> Null] : a \in {-1, 0, 1, 700}, l \in {-1, 0, 12, 23, 24, 25} }
    \cup
    { [type |-> "NonPolar", altitude |-> a, localSolarTimeAtDescendingNode |-> 0,
       inclination |-> i, raan |-> r] :
         a \in {0, 700}, i \in {-1, 0, 98, 180, 181},
         r \in {Null, Some(-1), Some(0), Some(359), Some(360)} }

SynthesisCalls ==
    { [fn |-> "createSatrec", input |-> [params |-> p, libraryAccepts |-> b], output |-> Null] :
        p \in SynthesisParams, b \in BOOLEAN }

\* relay positions at 7000 km from the Earth's centre whose unit vector is
\* exact in thousandths
RelayPositions ==
    { Vec(a, b, c) : a, b, c \in {-70, -56, -42, 0, 42, 56, 70} }
        \cap { v \in [x : -70..70, y : -70..70, z : -70..70] :
                 v.x * v.x + v.y * v.y + v.z * v.z = 4900 }

FovDegrees == {10, 62, 90, 180}

ConeCalls ==
    { [fn |-> "createIridiumCone",
       input |-> [config |-> [iridiumFovDeg |-> f, beaconFovDeg |-> 62],
                  position |-> v, id |-> n],
       output |-> Null] :
        f \in FovDegrees, v \in RelayPositions, n \in SatNames }

PropagateCalls ==
    { [fn |-> "propagateSatellite",
       input |-> [satrec |-> r, lib |-> l, geodeticThrows |-> g],
       output |-> Null] :
        r \in BOOLEAN, l \in PropagatorOutputs, g \in BOOLEAN }

\* the vectors of length 5 and 10 whose unit vector is exact in thousandths,
\* and the zero vector
Offsets ==
    { v \in [x : {-5, -4, -3, 0, 3, 4, 5}, y : {-5, -4, -3, 0, 3, 4, 5},
              z : {-5, -4, -3, 0, 3, 4, 5}] :
        v.x * v.x + v.y * v.y + v.z * v.z \in {0, 25} }
    \cup
    { v \in [x : {-10, -8, -6, 0, 6, 8, 10}, y : {-10, -8, -6, 0, 6, 8, 10},
              z : {-10, -8, -6, 0, 6, 8, 10}] :
        v.x * v.x + v.y * v.y + v.z * v.z = 100 }

\* unit axes, in thousandths
UnitAxes ==
    { normalize(v) : v \in {Vec(0, 0, 5), Vec(0, 0, -5), Vec(5, 0, 0), Vec(3, 4, 0),
                            Vec(0, -3, 4)} }

ConeFovDegrees == {2, 62, 120, 180, 240, 360}

ScaleFactors == {2, 3}

\* a target, a cone, and the factor by which they are scaled
PointInConeCalls ==
    { [fn |-> "isPointInCone",
       input |-> [targetPoint |-> Vec(t.x + w.x, t.y + w.y, t.z + w.z),
                  cone |-> [tip |-> t, axis |-> a, halfAngle |-> halfAngleRadians(f)],
                  k |-> k],
       output |-> Null] :
        t \in {Vec(0, 0, 0), Vec(70, 0, 0)}, w \in Offsets, a \in UnitAxes,
        f \in ConeFovDegrees, k \in ScaleFactors }

NormalizeCalls ==
    { [fn |-> "normalize", input |-> [v |-> v], output |-> Null] : v \in Offsets }

\* the unit vectors perpendicular to the zenith of a position
Horizontal(p) ==
    { u \in { normalize(v) : v \in RelayPositions } : dotProduct(u, normalize(p)) = 0 }

\* Beacon positions at 7000 km and velocities, in thousandths of km/s, made
\* of a horizontal part of speed s and a radial part of speed r; and a
\* Beacon at the Earth's centre
BeaconStates ==
    UNION { { [position |-> p, velocity |-> add(scale(u, s), scale(normalize(p), r))] :
                u \in Horizontal(p), s \in {0, 2}, r \in {-1, 0, 2} } :
            p \in RelayPositions }
    \cup
    { [position |-> Vec(0, 0, 0), velocity |-> v] :
        v \in {Vec(0, 0, 0), Vec(2000, 0, 0)} }

AntennaConeCalls ==
    { [fn |-> "createBeaconAntennaCones", input |-> b, output |-> Null] :
        b \in BeaconStates }

\* the elements of a valid orbit at an epoch: year, day of the year with its
\* fraction (1e-8 day), inclination and node (1e-4 degree), mean motion
\* (1e-8 revolution per day)
ElementSets ==
    [year : {2005, 2024},
     epochdays : [whole : {1, 45, 137}, fraction : {0, 58611841}],
     inclinationDeg : [whole : {0, 98, 180}, fraction : {0, 1870}],
     raanDeg : [whole : {0, 218, 359}, fraction : {0, 5490}],
     meanMotionRevPerDay : [whole : {9, 14}, fraction : {57000000}]]

TleStringCalls ==
    { [fn |-> "createTLEStrings", input |-> e, output |-> Null] : e \in ElementSets }

MaxLines == 4

ResponseLines == {"IRIDIUM A", FALLBACK_LINE1, FALLBACK_LINE2, ""}

\* the text is trimmed before it is split (line 44): an empty text is one
\* blank line, any other text begins and ends with a line that is not blank
Responses ==
    { [kind |-> k, lines |-> <<>>] : k \in {"rejected", "notText"} }
    \cup
    { [kind |-> "text", lines |-> l] :
        l \in { t \in UNION { [1..n -> ResponseLines] : n \in 1..MaxLines } :
                  t = <<"">> \/ (t[1] # "" /\ t[Len(t)] # "") } }

FetchCalls ==
    { [fn |-> "fetchIridiumTLEs", input |-> r, output |-> Null] : r \in Responses }

\* altitudes in km: below, across and above the range of Earth-observation
\* orbits, up to where the solved cosine leaves [-1, 1]
Altitudes == {200, 3000, 6000, 8000} \cup { 100 * h : h \in 4..15 }

InclinationCalls ==
    { [fn |-> "sunSynchronousInclination", input |-> [altitude |-> h], output |-> Null] :
        h \in Altitudes }

UnitCalls ==
    SynthesisCalls \cup ConeCalls \cup PropagateCalls \cup PointInConeCalls
        \cup NormalizeCalls \cup AntennaConeCalls \cup TleStringCalls
        \cup FetchCalls \cup InclinationCalls

UnitInit ==
    /\ pc = "unit"
    /\ call \in UnitCalls
    /\ config = CHOOSE c \in Configs : TRUE
    /\ startTime \in StartTimes
    /\ beaconSatRec = "unset"
    /\ iridiumSatRecs = <<>>
    /\ totalHandshakes = 0
    /\ handshakeLog = <<>>
    /\ blackoutPeriods = <<>>
    /\ beaconTrack = <<>>
    /\ iridiumTracks = [id \in {} |-> <<>>]
    /\ activeLinksLog = <<>>
    /\ currentTime = startTime
    /\ previousConnectedIridiumSatIds = {}
    /\ currentBlackout = Null
    /\ result = Null
    /\ error = Null
    /\ fetchStarted = FALSE
    /\ propagateCalls = [beacon |-> 0, relay |-> 0]
    /\ coneTests = 0
    /\ trace = <<>>
    /\ iridiumTLEs = Null
    /\ pending = <<>>
    /\ returned = <<>>
    /\ app = Null

runVars == <<pc, config, startTime, beaconSatRec, iridiumSatRecs, totalHandshakes,
             handshakeLog, blackoutPeriods, beaconTrack, iridiumTracks, activeLinksLog,
             currentTime, previousConnectedIridiumSatIds, currentBlackout, result, error,
             fetchStarted, propagateCalls, coneTests, trace, iridiumTLEs>>

Returns(fn, output) ==
    /\ call.fn = fn
    /\ call.output = Null
    /\ call' = [call EXCEPT !.output = Some(output)]
    /\ UNCHANGED <<runVars, pending, returned, app>>

\* the Beacon synthesis as runSimulation calls it
ApplyCreateSatrec ==
    /\ call.fn = "createSatrec"
    /\ Returns("createSatrec",
               [satrec |-> createBeaconSatrec(call.input.params, call.input.libraryAccepts),
                tleStringsBuilt |-> tleStringsRequested(call.input.params)])

\* the cone runSimulation builds for a relay at a step
ApplyIridiumCone ==
    /\ call.fn = "createIridiumCone"
    /\ Returns("createIridiumCone",
               engineIridiumCone(call.input.config, call.input.position, call.input.id))

ApplyPropagateSatellite ==
    /\ call.fn = "propagateSatellite"
    /\ Returns("propagateSatellite",
               propagateSatellite(call.input.satrec, call.input.lib,
                                  call.input.geodeticThrows))

\* the cone test on the input, on the input with every vector scaled by k,
\* and on the input with the two positions scaled by k
ApplyIsPointInCone ==
    /\ call.fn = "isPointInCone"
    /\ LET t == call.input.targetPoint
           cone == call.input.cone
           k == call.input.k
       IN Returns("isPointInCone",
                  [inside |-> isPointInCone(t, cone),
                   allScaled |->
                       isPointInCone(scale(t, k),
                                     [tip |-> scale(cone.tip, k),
                                      axis |-> scale(cone.axis, k),
                                      halfAngle |-> cone.halfAngle]),
                   positionsScaled |->
                       isPointInCone(scale(t, k),
                                     [tip |-> scale(cone.tip, k),
                                      axis |-> cone.axis,
                                      halfAngle |-> cone.halfAngle])])

\* normalize on a vector, on a position through getNadirVector, and on the
\* vector from a cone apex to a target at the apex (isPointInCone, line 92)
ApplyNormalize ==
    /\ call.fn = "normalize"
    /\ LET v == call.input.v
       IN Returns("normalize",
                  [unit |-> normalize(v),
                   nadir |-> getNadirVector(v),
                   toCoincident |-> normalize(subtract(v, v))])

ApplyBeaconAntennaCones ==
    /\ call.fn = "createBeaconAntennaCones"
    /\ Returns("createBeaconAntennaCones",
               [cones |-> createBeaconAntennaCones(call.input.position,
                                                   call.input.velocity)])

ApplyCreateTLEStrings ==
    /\ call.fn = "createTLEStrings"
    /\ LET e == call.input
       IN Returns("createTLEStrings",
                  tleLines(e.year, e.epochdays, e.inclinationDeg, e.raanDeg,
                           e.meanMotionRevPerDay))

\* the relay fetch settles, and runSimulation tests its value at line 40
ApplyFetchIridiumTLEs ==
    /\ call.fn = "fetchIridiumTLEs"
    /\ LET settlement == fetchIridiumTLEs(call.input)
       IN Returns("fetchIridiumTLEs",
                  [settled |-> settlement.settled,
                   value |-> settlement.value,
                   noTLEsFetched |-> settlement.settled = "fulfilled"
                                       /\ noTLEsFetched(settlement.value)])

\* lines 646-653: the cosine is solved, then clamped for Math.acos
ApplySunSynchronousInclination ==
    /\ call.fn = "sunSynchronousInclination"
    /\ LET cos_i == sunSynchronousCosine(call.input.altitude)
       IN Returns("sunSynchronousInclination",
                  [solved |-> cos_i, cos_i |-> clampCosine(cos_i)])

UnitNext ==
    \/ ApplySunSynchronousInclination
    \/ ApplyFetchIridiumTLEs
    \/ ApplyCreateTLEStrings
    \/ ApplyNormalize
    \/ ApplyBeaconAntennaCones
    \/ ApplyCreateSatrec
    \/ ApplyIridiumCone
    \/ ApplyPropagateSatellite
    \/ ApplyIsPointInCone

SpecUnits == UnitInit /\ [][UnitNext]_vars

\* ------------------------------------------- the run as the history tells it
\* the loop iterations in which the Beacon propagated, in order
Processed == SelectSeq(trace, LAMBDA e : e.beaconOk)

\* the relay ids inside whose cone the Beacon was at iteration e
ConnectedAt(e) ==
    { iridiumSatRecs[k].id : k \in { j \in 1..Len(iridiumSatRecs) : e.outcomes[j] = "in" } }

DistinctIds ==
    \A j, k \in 1..Len(iridiumSatRecs) :
        iridiumSatRecs[j].id = iridiumSatRecs[k].id => j = k

\* processed steps at which relay r is connected and was not at the one before
RisingEdges(r) ==
    { i \in 1..Len(Processed) :
        /\ r \in ConnectedAt(Processed[i])
        /\ (i = 1 \/ r \notin ConnectedAt(Processed[i - 1])) }

HandshakesOf(log, r) == { j \in 1..Len(log) : log[j].iridiumSatelliteId = r }

EdgeCount(r) == Cardinality(RisingEdges(r))

RECURSIVE SumEdgeCounts(_)
SumEdgeCounts(S) ==
    IF S = {} THEN 0
    ELSE LET r == CHOOSE q \in S : TRUE IN EdgeCount(r) + SumEdgeCounts(S \ {r})

HandshakesMatch(total, log) ==
    /\ \A r \in satRecIds(iridiumSatRecs) :
           Cardinality(HandshakesOf(log, r)) = Cardinality(RisingEdges(r))
    /\ \A r \in satRecIds(iridiumSatRecs) :
           { log[j].timestamp : j \in HandshakesOf(log, r) }
             = { Processed[i].timestamp : i \in RisingEdges(r) }
    /\ total = SumEdgeCounts(satRecIds(iridiumSatRecs))

\* C1: with distinct relay ids, the handshake records of relay r are exactly
\* its rising edges over the processed steps (one record per edge, at the
\* edge's timestamp), and totalHandshakes is the sum of the edge counts over
\* all relays; in every state of the loop and in the returned result.
C1_HandshakesAreRisingEdges ==
    DistinctIds =>
        /\ HandshakesMatch(totalHandshakes, handshakeLog)
        /\ result # Null =>
              HandshakesMatch(Head(result).totalHandshakes, Head(result).handshakeLog)

\* a returned run in which one relay was connected, lost and connected again
\* (two rising edges, two records) while another relay stayed out
C1_Witness ==
    /\ pc = "done"
    /\ DistinctIds
    /\ Len(iridiumSatRecs) = 2
    /\ \E r \in satRecIds(iridiumSatRecs) :
          /\ Cardinality(RisingEdges(r)) = 2
          /\ Cardinality(HandshakesOf(Head(result).handshakeLog, r)) = 2
    /\ Head(result).totalHandshakes = 2

Last(seq) == seq[Len(seq)]

\* the returned blackout periods whose endTime is t
PeriodsEndingAt(periods, t) == { j \in 1..Len(periods) : periods[j].endTime = t }

DisconnectedAtFinalStep ==
    /\ trace # <<>>
    /\ Last(trace).beaconOk
    /\ ConnectedAt(Last(trace)) = {}

RunStarts ==
    { i \in 1..Len(Processed) :
        /\ ConnectedAt(Processed[i]) = {}
        /\ (i = 1 \/ ConnectedAt(Processed[i - 1]) # {}) }

\* the processed steps after step i with something connected
ConnectedAfter(i) == { j \in (i + 1)..Len(Processed) : ConnectedAt(Processed[j]) # {} }

Min(S) == CHOOSE x \in S : \A y \in S : x <= y

\* the position of run start i among the run starts
RunRank(i) == Cardinality({ s \in RunStarts : s <= i })

\* C3: the blackout periods are, in order, the maximal runs of consecutive
\* processed steps with an empty connected set: the k-th period starts at the
\* first step of the k-th run and, when a connected step follows the run,
\* ends at the first such step; a run not yet followed by a connected step
\* is the one open blackout (closed only when the loop is left), so no
\* blackout is opened while one is open.
C3_BlackoutsAreMaximalRuns ==
    pc \in {"loop", "done"} =>
        /\ \A i \in RunStarts :
              IF ConnectedAfter(i) # {}
              THEN /\ RunRank(i) <= Len(blackoutPeriods)
                   /\ blackoutPeriods[RunRank(i)].startTime = Processed[i].timestamp
                   /\ blackoutPeriods[RunRank(i)].endTime
                        = Processed[Min(ConnectedAfter(i))].timestamp
              ELSE /\ currentBlackout = Some([startTime |-> Processed[i].timestamp])
                   /\ pc = "loop" => Len(blackoutPeriods) = RunRank(i) - 1
                   /\ pc = "done" =>
                        /\ Len(blackoutPeriods) = RunRank(i)
                        /\ Last(blackoutPeriods).startTime = Processed[i].timestamp
        /\ Len(blackoutPeriods) <= Cardinality(RunStarts)
        /\ (\A i \in RunStarts : ConnectedAfter(i) # {}) =>
              /\ currentBlackout = Null
              /\ Len(blackoutPeriods) = Cardinality(RunStarts)
        /\ result # Null => Head(result).blackoutPeriods = blackoutPeriods

\* a returned run with two blackouts, the first closed by a connected step
C3_Witness ==
    /\ pc = "done"
    /\ Cardinality(RunStarts) = 2
    /\ Len(Head(result).blackoutPeriods) = 2
    /\ Head(result).blackoutPeriods[1].endTime > Head(result).blackoutPeriods[1].startTime

AllPeriods ==
    { blackoutPeriods[j] : j \in 1..Len(blackoutPeriods) }
      \cup (IF result = Null THEN {}
            ELSE { Head(result).blackoutPeriods[j] :
                     j \in 1..Len(Head(result).blackoutPeriods) })

\* C4: every blackout period, closed inside the loop or when the loop is
\* left, ends no earlier than it starts, and its duration in seconds is
\* (endTime - startTime) / 1000.
C4_PeriodsWellFormed ==
    \A p \in AllPeriods :
        /\ p.endTime >= p.startTime
        /\ p.duration * 1000 = p.endTime - p.startTime

\* a returned run with a period closed in the loop and one closed at exit,
\* both of positive duration
C4_Witness ==
    /\ pc = "done"
    /\ Len(Head(result).blackoutPeriods) = 2
    /\ currentBlackout # Null
    /\ Head(result).blackoutPeriods[1].duration > 0
    /\ Head(result).blackoutPeriods[2].duration > 0

\* the sum of the durations of periods[1..n], added from the last one down
RECURSIVE DurationSum(_, _)
DurationSum(periods, n) ==
    IF n = 0 THEN 0 ELSE periods[n].duration + DurationSum(periods, n - 1)

\* C5: in every returned result, totalBlackoutDuration is the sum of the
\* durations of blackoutPeriods and numberOfBlackouts is their number.
C5_BlackoutAccounting ==
    result # Null =>
        LET r == Head(result)
        IN /\ r.totalBlackoutDuration = DurationSum(r.blackoutPeriods, Len(r.blackoutPeriods))
           /\ r.numberOfBlackouts = Len(r.blackoutPeriods)

\* a returned run with two blackouts of positive duration
C5_Witness ==
    /\ pc = "done"
    /\ Head(result).numberOfBlackouts = 2
    /\ Head(result).blackoutPeriods[1].duration > 0
    /\ Head(result).totalBlackoutDuration > Head(result).blackoutPeriods[1].duration

\* C6: averageBlackoutDuration is totalBlackoutDuration / numberOfBlackouts
\* when there is a blackout and 0 when there is none; its denominator is
\* never zero, also when every Beacon step failed to propagate.
C6_AverageBlackout ==
    result # Null =>
        LET r == Head(result)
            avg == r.averageBlackoutDuration
        IN /\ avg.den # 0
           /\ Len(r.blackoutPeriods) > 0 =>
                 avg.num * r.numberOfBlackouts = r.totalBlackoutDuration * avg.den
           /\ Len(r.blackoutPeriods) = 0 => avg.num = 0

\* a returned run in which every Beacon step failed: no period, average 0
C6_Witness ==
    /\ pc = "done"
    /\ Len(trace) >= 2
    /\ \A i \in 1..Len(trace) : ~trace[i].beaconOk
    /\ Head(result).blackoutPeriods = <<>>
    /\ Head(result).averageBlackoutDuration.num = 0

\* C7: after every loop iteration and in the result, activeLinksLog is as
\* long as beaconTrack, and entry i is the connected set of the processed
\* step whose timestamp is beaconTrack[i].timestamp, whatever failed.
LinksAligned(track, links) ==
    /\ Len(links) = Len(track)
    /\ Len(track) = Len(Processed)
    /\ \A i \in 1..Len(track) :
          /\ track[i].timestamp = Processed[i].timestamp
          /\ links[i] = ConnectedAt(Processed[i])

C7_ActiveLinksAligned ==
    /\ LinksAligned(beaconTrack, activeLinksLog)
    /\ result # Null => LinksAligned(Head(result).beaconTrack, Head(result).activeLinksLog)

\* a run with a failed Beacon step between two processed steps, a relay
\* failure, and a link at the second processed step
C7_Witness ==
    /\ Len(trace) = 3
    /\ trace[1].beaconOk /\ ~trace[2].beaconOk /\ trace[3].beaconOk
    /\ \E k \in 1..Len(iridiumSatRecs) : trace[3].outcomes[k] = "fail"
    /\ Len(activeLinksLog) = 2
    /\ activeLinksLog[1] = {}
    /\ activeLinksLog[2] # {}
    /\ beaconTrack[2].timestamp = startTime + 2 * timeStepMs

\* the step being taken is a loop iteration whose Beacon propagation failed
BeaconFailedStep ==
    /\ Len(trace') = Len(trace) + 1
    /\ ~Last(trace').beaconOk

\* C8: an iteration in which the Beacon fails to propagate advances the
\* current time by one step and changes nothing else: the connection set,
\* the open-blackout marker, the handshake count and log, the blackout
\* periods, the active-links log and all tracks are unchanged, and no relay
\* is propagated or cone-tested.
C8_FailedBeaconStepIsAbsent ==
    [][BeaconFailedStep =>
         /\ currentTime' = currentTime + timeStepMs
         /\ UNCHANGED <<previousConnectedIridiumSatIds, currentBlackout, totalHandshakes,
                        handshakeLog, blackoutPeriods, activeLinksLog, beaconTrack,
                        iridiumTracks, coneTests>>
         /\ propagateCalls'.relay = propagateCalls.relay
         /\ propagateCalls'.beacon = propagateCalls.beacon + 1]_vars

\* a relay connected at the processed steps just before and just after a
\* failed Beacon step, with the single handshake of its first contact
C8_Witness ==
    /\ Len(trace) = 3
    /\ trace[1].beaconOk /\ ~trace[2].beaconOk /\ trace[3].beaconOk
    /\ DistinctIds
    /\ \E r \in satRecIds(iridiumSatRecs) :
          /\ r \in ConnectedAt(trace[1]) \cap ConnectedAt(trace[3])
          /\ Cardinality(HandshakesOf(handshakeLog, r)) = 1
          /\ handshakeLog[1].timestamp = trace[1].timestamp

\* the step being taken is a loop iteration whose Beacon propagated
BeaconProcessedStep ==
    /\ Len(trace') = Len(trace) + 1
    /\ Last(trace').beaconOk

\* the records of relay id whose outcome in iteration e is in the set given
RecordsWith(e, id, outcomeSet) ==
    { k \in 1..Len(iridiumSatRecs) :
        iridiumSatRecs[k].id = id /\ e.outcomes[k] \in outcomeSet }

\* C9: in an iteration in which the Beacon propagated, a relay record that
\* fails to propagate adds no track sample and no connection, and nothing
\* more: every record is propagated, every record that propagated is
\* cone-tested and gets one track sample at the step's timestamp, every
\* record inside the cone is connected and, when it was not connected at the
\* step before, gets a handshake at this timestamp; the step appends its
\* Beacon sample and its active-links entry and runs the blackout logic.
C9_RelayFailureSkipsOnlyThatRelay ==
    [][BeaconProcessedStep =>
         LET e == Last(trace')
             t == e.timestamp
         IN /\ t = currentTime
            /\ propagateCalls'.relay = propagateCalls.relay + Len(iridiumSatRecs)
            /\ coneTests' = coneTests
                 + Cardinality({ k \in 1..Len(iridiumSatRecs) : e.outcomes[k] # "fail" })
            /\ \A id \in satRecIds(iridiumSatRecs) :
                  LET n == Cardinality(RecordsWith(e, id, {"out", "in"}))
                  IN /\ Len(iridiumTracks'[id]) = Len(iridiumTracks[id]) + n
                     /\ SubSeq(iridiumTracks'[id], 1, Len(iridiumTracks[id])) = iridiumTracks[id]
                     /\ \A j \in (Len(iridiumTracks[id]) + 1)..Len(iridiumTracks'[id]) :
                           iridiumTracks'[id][j] = t
                     /\ (id \in Last(activeLinksLog')) <=> (RecordsWith(e, id, {"in"}) # {})
                     /\ (RecordsWith(e, id, {"in"}) # {}
                           /\ id \notin previousConnectedIridiumSatIds) =>
                          \E j \in (Len(handshakeLog) + 1)..Len(handshakeLog') :
                              handshakeLog'[j] = [timestamp |-> t, iridiumSatelliteId |-> id]
            /\ previousConnectedIridiumSatIds' = Last(activeLinksLog')
            /\ beaconTrack' = Append(beaconTrack, [timestamp |-> t])
            /\ Len(activeLinksLog') = Len(activeLinksLog) + 1
            /\ (Last(activeLinksLog') = {}) <=> (currentBlackout' # Null)
            /\ (Last(activeLinksLog') # {} /\ currentBlackout # Null) =>
                  /\ Len(blackoutPeriods') = Len(blackoutPeriods) + 1
                  /\ Last(blackoutPeriods').endTime = t]_vars

\* the first record failed to propagate at the last step while the second,
\* a different relay, was tracked, connected and given a handshake there,
\* closing the blackout of the step before
C9_Witness ==
    /\ Len(trace) = 2
    /\ trace[1].beaconOk /\ trace[2].beaconOk
    /\ Len(iridiumSatRecs) = 2
    /\ DistinctIds
    /\ trace[1].outcomes = <<"out", "out">>
    /\ trace[2].outcomes = <<"fail", "in">>
    /\ iridiumTracks[iridiumSatRecs[1].id] = <<trace[1].timestamp>>
    /\ iridiumTracks[iridiumSatRecs[2].id] = <<trace[1].timestamp, trace[2].timestamp>>
    /\ Last(activeLinksLog) = {iridiumSatRecs[2].id}
    /\ Last(handshakeLog) = [timestamp |-> trace[2].timestamp,
                             iridiumSatelliteId |-> iridiumSatRecs[2].id]
    /\ Len(beaconTrack) = 2
    /\ Len(blackoutPeriods) = 1

\* C10: when Beacon element synthesis returns null, the run is rejected with
\* an error before the relay fetch is started and before any propagation or
\* cone test, and no result is produced; a run never proceeds with a null
\* Beacon record.
C10_SynthesisFailureRejectsFirst ==
    beaconSatRec = "null" =>
        /\ pc = "rejected"
        /\ error = Some("Failed to initialize Beacon satellite record.")
        /\ ~fetchStarted
        /\ propagateCalls = [beacon |-> 0, relay |-> 0]
        /\ coneTests = 0
        /\ result = Null
        /\ trace = <<>>

\* a rejected run whose parameters were valid but whose element set the
\* satrec constructor refused
C10_Witness ==
    /\ pc = "rejected"
    /\ beaconSatRec = "null"
    /\ config.beaconParams.altitude > 0
    /\ config.beaconParams.type = "SunSynchronous"
    /\ config.beaconParams.localSolarTimeAtDescendingNode < 24
    /\ error # Null

\* --------------------------------------------------- the fetched relay list
\* the fetched element sets that satellite.js accepted, in the fetched order
Initialized(tles) == SelectSeq(tles, LAMBDA t : t.parses)

NamesOf(tles) == { tles[k].name : k \in 1..Len(tles) }

\* C11: once the relay fetch has resolved, the run is rejected (an error, no
\* result, no propagation) exactly when the fetched list is empty or none of
\* its element sets initialises; otherwise the run proceeds with exactly the
\* element sets that initialised, in the fetched order: every step carries one
\* outcome per such relay, and the keys of iridiumTracks (in the loop and in
\* the returned result) are the names of the initialised relays, so a relay
\* that failed to initialise (and shares no name with one that did) has no
\* key.  The loop is never entered before the fetch has resolved.
C11_RunUsesInitializedRelays ==
    /\ iridiumTLEs = Null => pc \in {"start", "fetching", "rejected"}
    /\ iridiumTLEs # Null =>
          LET tles == Head(iridiumTLEs)
              ok == Initialized(tles)
          IN IF ok = <<>>
             THEN /\ pc = "rejected"
                  /\ error # Null
                  /\ result = Null
                  /\ trace = <<>>
                  /\ propagateCalls = [beacon |-> 0, relay |-> 0]
             ELSE /\ pc \in {"loop", "done"}
                  /\ error = Null
                  /\ Len(iridiumSatRecs) = Len(ok)
                  /\ \A k \in 1..Len(ok) : iridiumSatRecs[k].id = ok[k].name
                  /\ DOMAIN iridiumTracks = NamesOf(ok)
                  /\ \A k \in 1..Len(tles) :
                        (~tles[k].parses /\ tles[k].name \notin NamesOf(ok))
                            => tles[k].name \notin DOMAIN iridiumTracks
                  /\ \A i \in 1..Len(trace) :
                        trace[i].beaconOk => DOMAIN trace[i].outcomes = 1..Len(ok)
                  /\ pc = "done" =>
                        DOMAIN Head(result).iridiumTracks = NamesOf(ok)

\* a returned run whose fetched list held two differently named element sets
\* of which one failed to initialise: the other relay alone was simulated and
\* has the only track
C11_Witness ==
    /\ pc = "done"
    /\ iridiumTLEs # Null
    /\ Len(Head(iridiumTLEs)) = 2
    /\ Head(iridiumTLEs)[1].name # Head(iridiumTLEs)[2].name
    /\ \E k \in 1..2 : ~Head(iridiumTLEs)[k].parses
    /\ Len(iridiumSatRecs) = 1
    /\ DOMAIN Head(result).iridiumTracks = {iridiumSatRecs[1].id}
    /\ Head(result).iridiumTracks[iridiumSatRecs[1].id] # <<>>

\* ------------------------------------------------- Beacon synthesis on its own
SynthesisReturned == call # Null /\ call.fn = "createSatrec" /\ call.output # Null

\* the parameter faults the synthesis is said to reject
ParamsOutOfRange(p) ==
    \/ p.altitude <= 0
    \/ p.type = "SunSynchronous"
         /\ (p.localSolarTimeAtDescendingNode < 0 \/ p.localSolarTimeAtDescendingNode >= 24)
    \/ p.type = "NonPolar"
         /\ (\/ p.inclination < 0
             \/ p.inclination > 180
             \/ p.raan # Null /\ (Head(p.raan) < 0 \/ Head(p.raan) >= 360))

\* C12: the Beacon synthesis returns null without having asked for the
\* element computation and the TLE strings whenever the altitude is not
\* positive, or (sun-synchronous) the local solar time is below 0 or at least
\* 24, or (non-polar) the inclination is below 0 or above 180 or a present
\* raan is below 0 or at least 360; every other parameter record, among them
\* the boundary values local solar time 0, inclination 0, inclination 180 and
\* raan 0, passes this validation (the TLE strings are requested).
C12_ValidationPrecedesSynthesis ==
    SynthesisReturned =>
        LET p == call.input.params
            out == Head(call.output)
        IN IF ParamsOutOfRange(p)
           THEN out.satrec = "null" /\ ~out.tleStringsBuilt
           ELSE out.tleStringsBuilt

\* a non-polar record with a raan of 360 was rejected before the strings were
\* requested although the library would have accepted them
C12_Witness ==
    /\ SynthesisReturned
    /\ call.input.params.type = "NonPolar"
    /\ call.input.params.altitude > 0
    /\ call.input.params.inclination = 180
    /\ call.input.params.raan = Some(360)
    /\ call.input.libraryAccepts
    /\ Head(call.output).satrec = "null"
    /\ ~Head(call.output).tleStringsBuilt

\* ------------------------------------------------------ the relay cone built
ConeBuilt == call # Null /\ call.fn = "createIridiumCone" /\ call.output # Null

\* C13: the cone built for a relay and handed to the cone test has its apex
\* at the relay's position, a unit axis pointing from the relay to the
\* Earth's centre, and a half-angle of config.iridiumFovDeg / 2 in radians.
C13_ConeFollowsConfiguredFov ==
    ConeBuilt =>
        LET cone == Head(call.output)
            pos == call.input.position
            r == 70
        IN /\ cone.tip = pos
           /\ cone.axis.x * r = -pos.x * UnitScale
           /\ cone.axis.y * r = -pos.y * UnitScale
           /\ cone.axis.z * r = -pos.z * UnitScale
           /\ cone.halfAngle = (call.input.config.iridiumFovDeg * PiMicro) \div 360

\* ------------------------------------------------ propagateSatellite returned
Propagated == call # Null /\ call.fn = "propagateSatellite" /\ call.output # Null

NonFinite(c) == c \in {"NaN", "Infinity", "-Infinity"}

HasNonFinite(v) ==
    v.kind = "vector" /\ (NonFinite(v.x) \/ NonFinite(v.y) \/ NonFinite(v.z))

\* C15: propagateSatellite returns null whenever a component of the position
\* or of the velocity the propagator returned is NaN, +Infinity or -Infinity.
C15_NonFiniteIsRejected ==
    Propagated =>
        LET lib == call.input.lib
        IN (lib.kind = "object" /\ (HasNonFinite(lib.position) \/ HasNonFinite(lib.velocity)))
              => Head(call.output).kind = "null"

\* the ways the propagator is said to fail
PropagatorFailed(lib, geodeticThrows) ==
    \/ lib.error # 0
    \/ lib.kind \in {"false", "throws", "null"}
    \/ lib.kind = "object" /\ (lib.position.kind # "vector" \/ lib.velocity.kind # "vector")
    \/ geodeticThrows

\* C16: propagateSatellite never throws; when the propagator reports a
\* non-zero error code, returns false, omits position or velocity, or throws
\* (the geodetic conversion included), the call returns null; and a value it
\* does return carries the propagator's own position and velocity.
C16_PropagationFailureIsNull ==
    Propagated =>
        LET lib == call.input.lib
            out == Head(call.output)
        IN /\ out.kind # "throws"
           /\ PropagatorFailed(lib, call.input.geodeticThrows) => out.kind = "null"
           /\ out.kind = "value" =>
                 out.positionEci = lib.position /\ out.velocityEci = lib.velocity

\* the propagator returned finite vectors, the geodetic conversion threw, and
\* the call returned null
C16_Witness ==
    /\ Propagated
    /\ call.input.satrec
    /\ call.input.lib.kind = "object"
    /\ call.input.lib.position = [kind |-> "vector", x |-> "finite", y |-> "finite", z |-> "finite"]
    /\ call.input.lib.velocity = [kind |-> "vector", x |-> "finite", y |-> "finite", z |-> "finite"]
    /\ call.input.geodeticThrows
    /\ Head(call.output).kind = "null"

\* ----------------------------------------------------------- first contact
AlwaysConnected(r) ==
    /\ Processed # <<>>
    /\ \A i \in 1..Len(Processed) : r \in ConnectedAt(Processed[i])

FirstContactLogged(log, r) ==
    \E j \in HandshakesOf(log, r) : log[j].timestamp = Processed[1].timestamp

\* C17: a relay inside whose cone the Beacon is at the first processed step
\* has a handshake record at that step's timestamp, and (relay ids distinct)
\* a relay connected at every processed step has exactly one record in all;
\* in every state of the loop and in the returned result.
C17_FirstContactIsOneHandshake ==
    \A r \in satRecIds(iridiumSatRecs) :
        /\ (Processed # <<>> /\ r \in ConnectedAt(Processed[1])) =>
              /\ FirstContactLogged(handshakeLog, r)
              /\ result # Null => FirstContactLogged(Head(result).handshakeLog, r)
        /\ (DistinctIds /\ AlwaysConnected(r)) =>
              /\ Cardinality(HandshakesOf(handshakeLog, r)) = 1
              /\ result # Null =>
                    Cardinality(HandshakesOf(Head(result).handshakeLog, r)) = 1

\* a returned run of three processed steps with one relay connected at all of
\* them and one record, at the start time
C17_Witness ==
    /\ pc = "done"
    /\ DistinctIds
    /\ Len(Processed) = 3
    /\ Len(trace) = 3
    /\ \E r \in satRecIds(iridiumSatRecs) :
          /\ AlwaysConnected(r)
          /\ HandshakesOf(Head(result).handshakeLog, r) # {}
          /\ \A j \in HandshakesOf(Head(result).handshakeLog, r) :
                Head(result).handshakeLog[j].timestamp = startTime

\* ------------------------------------------------------------ the time grid
\* the number of timestamps start + k * step that are <= start + duration
GridSize == (simulationDurationMs \div timeStepMs) + 1

StrictlyIncreasing(track) ==
    \A i, j \in 1..Len(track) : i < j => track[i].timestamp < track[j].timestamp

OnTheGrid(track) ==
    \A i \in 1..Len(track) : \E k \in 1..Len(trace) : track[i].timestamp = trace[k].timestamp

RECURSIVE StepEdges(_, _)
StepEdges(i, k) ==
    IF k > Len(iridiumSatRecs) THEN <<>>
    ELSE (IF /\ Processed[i].outcomes[k] = "in"
             /\ (i = 1 \/ iridiumSatRecs[k].id \notin ConnectedAt(Processed[i - 1]))
          THEN << [timestamp |-> Processed[i].timestamp,
                   iridiumSatelliteId |-> iridiumSatRecs[k].id] >>
          ELSE <<>>)
         \o StepEdges(i, k + 1)

RECURSIVE EdgesUpTo(_)
EdgesUpTo(i) == IF i = 0 THEN <<>> ELSE EdgesUpTo(i - 1) \o StepEdges(i, 1)

RECURSIVE StepSamples(_, _, _)
StepSamples(id, i, k) ==
    IF k > Len(iridiumSatRecs) THEN <<>>
    ELSE (IF iridiumSatRecs[k].id = id /\ Processed[i].outcomes[k] # "fail"
          THEN << Processed[i].timestamp >> ELSE <<>>)
         \o StepSamples(id, i, k + 1)

RECURSIVE SamplesUpTo(_, _)
SamplesUpTo(id, i) ==
    IF i = 0 THEN <<>> ELSE SamplesUpTo(id, i - 1) \o StepSamples(id, i, 1)

\* the first timestamp of the grid that lies after startTime + duration
AfterLoop == startTime + GridSize * timeStepMs

ExpectedPeriod(i) ==
    LET from == Processed[i].timestamp
        to == IF ConnectedAfter(i) # {}
              THEN Processed[Min(ConnectedAfter(i))].timestamp
              ELSE AfterLoop
    IN [startTime |-> from, endTime |-> to, duration |-> (to - from) \div 1000]

ExpectedPeriods ==
    [k \in 1..Cardinality(RunStarts) |->
        ExpectedPeriod(CHOOSE i \in RunStarts : RunRank(i) = k)]

ExpectedResult ==
    LET n == Len(Processed)
        periods == ExpectedPeriods
        total == DurationSum(periods, Len(periods))
    IN [totalHandshakes |-> Len(EdgesUpTo(n)),
        handshakeLog |-> EdgesUpTo(n),
        activeLinksLog |-> [i \in 1..n |-> ConnectedAt(Processed[i])],
        blackoutPeriods |-> periods,
        totalBlackoutDuration |-> total,
        averageBlackoutDuration |->
            IF Len(periods) > 0 THEN [num |-> total, den |-> Len(periods)]
            ELSE [num |-> 0, den |-> 1],
        numberOfBlackouts |-> Len(periods),
        beaconTrack |-> [i \in 1..n |-> [timestamp |-> Processed[i].timestamp]],
        iridiumTracks |-> [id \in satRecIds(iridiumSatRecs) |-> SamplesUpTo(id, n)]]

ExpectedError ==
    IF beaconSatRec = "null" THEN "Failed to initialize Beacon satellite record."
    ELSE IF Head(iridiumTLEs) = <<>> THEN "No Iridium TLEs fetched. Cannot run simulation."
    ELSE "Failed to initialize any Iridium satellite records from TLEs."

\* C19: with two invocations of runSimulation, the second started while the
\* first is suspended at its fetch (either fetch resolving first) or after it
\* has settled, each invocation returns what its own inputs determine: it
\* works on the relays of its own fetched list, runs the iterations of its
\* own time grid, and its SimulationResults (or its error) are those of that
\* history, with nothing carried over from the other invocation.
C19_InvocationsAreIndependent ==
    /\ pc = "done" =>
          /\ Len(iridiumSatRecs) = Len(Initialized(Head(iridiumTLEs)))
          /\ \A k \in 1..Len(iridiumSatRecs) :
                iridiumSatRecs[k].id = Initialized(Head(iridiumTLEs))[k].name
          /\ Len(trace) = GridSize
          /\ \A i \in 1..Len(trace) : trace[i].timestamp = startTime + (i - 1) * timeStepMs
          /\ result = Some(ExpectedResult)
          /\ error = Null
    /\ pc = "rejected" => (result = Null /\ error = Some(ExpectedError))
    /\ \A j \in 1..Len(returned) :
          returned[j].result = Null <=> returned[j].error # Null
    /\ \A j \in 1..Len(pending) :
          pending[j].config \in PairConfigs /\ pending[j].beaconSatRec = "satrec"

\* the second invocation started while the first was suspended at its
\* fetch; one of them has settled with handshakes while the other was still
\* suspended, and the other has now returned with a different number of
\* handshakes, at least one
C19_Witness ==
    /\ pc = "done"
    /\ Len(returned) = 1
    /\ returned[1].whileSuspended # <<>>
    /\ returned[1].result # Null
    /\ Head(returned[1].result).totalHandshakes = 2
    /\ Head(result).totalHandshakes = 1
    /\ Len(Head(result).blackoutPeriods) = 1

\* ------------------------------------------ the Beacon's own field of view
\* two settled invocations whose inputs differ at most in config.beaconFovDeg
SameButBeaconFov(a, b) ==
    /\ [a.config EXCEPT !.beaconFovDeg = 0] = [b.config EXCEPT !.beaconFovDeg = 0]
    /\ a.startTime = b.startTime
    /\ a.iridiumTLEs = b.iridiumTLEs
    /\ a.trace = b.trace

ReorderedBy(p, a, b) ==
    LET la == Head(a.iridiumTLEs)
        lb == Head(b.iridiumTLEs)
    IN /\ Len(lb) = Len(la)
       /\ \A k \in 1..Len(la) : lb[k] = la[p[k]]
       /\ Len(b.trace) = Len(a.trace)
       /\ \A i \in 1..Len(a.trace) :
             /\ b.trace[i].timestamp = a.trace[i].timestamp
             /\ b.trace[i].beaconOk = a.trace[i].beaconOk
             /\ a.trace[i].beaconOk =>
                   \A k \in 1..Len(la) : b.trace[i].outcomes[k] = a.trace[i].outcomes[p[k]]

Reordered(a, b) ==
    /\ a.result # Null
    /\ b.result # Null
    /\ a.config = b.config
    /\ a.startTime = b.startTime
    /\ \E p \in Permutations(1..Len(Head(a.iridiumTLEs))) : ReorderedBy(p, a, b)

Records(log) == { log[k] : k \in 1..Len(log) }

\* C20: two returned invocations of which one had the other's relay list
\* (distinct ids) in another order, with the same outcome for every relay at
\* every iteration, agree on totalHandshakes, on the set of handshake records
\* and on the timestamps of the log in order (entries of one timestamp may be
\* swapped), on activeLinksLog, on the blackout periods and their statistics,
\* and on every track.
C20_RelayOrderIsIrrelevant ==
    \A i, j \in 1..Len(returned) :
        Reordered(returned[i], returned[j]) =>
            LET x == Head(returned[i].result)
                y == Head(returned[j].result)
            IN /\ x.totalHandshakes = y.totalHandshakes
               /\ Records(x.handshakeLog) = Records(y.handshakeLog)
               /\ Len(x.handshakeLog) = Len(y.handshakeLog)
               /\ \A k \in 1..Len(x.handshakeLog) :
                     x.handshakeLog[k].timestamp = y.handshakeLog[k].timestamp
               /\ x.activeLinksLog = y.activeLinksLog
               /\ x.blackoutPeriods = y.blackoutPeriods
               /\ x.totalBlackoutDuration = y.totalBlackoutDuration
               /\ x.averageBlackoutDuration = y.averageBlackoutDuration
               /\ x.numberOfBlackouts = y.numberOfBlackouts
               /\ x.beaconTrack = y.beaconTrack
               /\ x.iridiumTracks = y.iridiumTracks

\* two returned invocations over the same two relays in opposite orders: both
\* relays connect at the first step, so the two logs hold the same records in
\* different orders, and one relay fails to propagate at the second step
C20_Witness ==
    /\ Len(returned) = 2
    /\ returned[1].result # Null
    /\ returned[2].result # Null
    /\ Len(Head(returned[1].iridiumTLEs)) = 2
    /\ Len(Head(returned[2].iridiumTLEs)) = 2
    /\ Head(returned[1].iridiumTLEs)[1] = Head(returned[2].iridiumTLEs)[2]
    /\ Head(returned[1].iridiumTLEs)[1] # Head(returned[2].iridiumTLEs)[1]
    /\ Reordered(returned[1], returned[2])
    /\ Head(returned[1].result).handshakeLog # Head(returned[2].result).handshakeLog
    /\ Head(returned[1].result).totalHandshakes = 2
    /\ returned[1].trace[2].beaconOk
    /\ returned[1].trace[2].outcomes[1] = "fail"

\* ------------------------------------------------------- the cone test
PointTested == call # Null /\ call.fn = "isPointInCone" /\ call.output # Null

\* the target is apex + d * axis for a distance d > 0
OnAxis(input) ==
    \E d \in 1..10 :
        scale(subtract(input.targetPoint, input.cone.tip), UnitScale)
            = scale(input.cone.axis, d)

C22_ScalingAllVectors ==
    PointTested => Head(call.output).allScaled = Head(call.output).inside

\* C22: scaling the target and the apex by k > 0, the axis staying the unit
\* vector it is required to be, leaves the answer of isPointInCone
\* unchanged.
C22_ScalingPositions ==
    PointTested => Head(call.output).positionsScaled = Head(call.output).inside

\* a target off the axis and outside the cone, apex off the origin: it is
\* outside after the positions are scaled, and inside once the axis is
\* scaled as well
C22_Witness ==
    /\ PointTested
    /\ call.input.cone.tip # Vec(0, 0, 0)
    /\ ~OnAxis(call.input)
    /\ ~Head(call.output).inside
    /\ ~Head(call.output).positionsScaled
    /\ Head(call.output).allScaled

\* ------------------------------------------------------ the zero vector
Normalized == call # Null /\ call.fn = "normalize" /\ call.output # Null

\* C23: normalize of the zero vector returns the zero vector (no exception,
\* no NaN component); so the nadir vector of a zero position and the
\* direction from a cone apex to a target at the apex are the zero vector.
C23_ZeroVectorNormalizesToZero ==
    Normalized =>
        /\ call.input.v = Vec(0, 0, 0) =>
             /\ Head(call.output).unit = Vec(0, 0, 0)
             /\ Head(call.output).nadir = Vec(0, 0, 0)
        /\ Head(call.output).toCoincident = Vec(0, 0, 0)

\* normalize and getNadirVector have returned for the zero vector
C23_Witness ==
    /\ Normalized
    /\ call.input.v = Vec(0, 0, 0)
    /\ Head(call.output).unit = Vec(0, 0, 0)
    /\ Head(call.output).nadir = Vec(0, 0, 0)

\* ------------------------------------------------- the Beacon antenna cones
AntennaConesBuilt ==
    call # Null /\ call.fn = "createBeaconAntennaCones" /\ call.output # Null

\* the velocity has no component in the local horizontal plane
PurelyRadial(b) == crossProduct(b.position, b.velocity) = Vec(0, 0, 0)

\* C24: for a non-zero Beacon position and a velocity without horizontal
\* component (zero, or purely radial: above a pole, above the equator, or
\* anywhere else) createBeaconAntennaCones returns two cones whose axes are
\* non-zero, perpendicular to the zenith and opposite; never an empty list.
C24_FallbackAxisIsHorizontal ==
    (/\ AntennaConesBuilt
     /\ call.input.position # Vec(0, 0, 0)
     /\ PurelyRadial(call.input)) =>
        LET cones == Head(call.output).cones
        IN /\ Len(cones) = 2
           /\ cones[1].axis # Vec(0, 0, 0)
           /\ dotProduct(cones[1].axis, normalize(call.input.position)) = 0
           /\ cones[2].axis = scale(cones[1].axis, -1)

\* ------------------------------------------------ the element-set checksum
TleStringsBuilt == call # Null /\ call.fn = "createTLEStrings" /\ call.output # Null

\* what a character counts in the checksum of an element-set line
CountOf(char) ==
    CASE char = "1" \/ char = "-" -> 1
      [] char = "2" -> 2 [] char = "3" -> 3 [] char = "4" -> 4 [] char = "5" -> 5
      [] char = "6" -> 6 [] char = "7" -> 7 [] char = "8" -> 8 [] char = "9" -> 9
      [] OTHER -> 0

\* the sum of what the first n characters of a line count
RECURSIVE CountSum(_, _)
CountSum(line, n) == IF n = 0 THEN 0 ELSE CountSum(line, n - 1) + CountOf(line[n])

ChecksumClosesLine(line) ==
    /\ Len(line) > 1
    /\ <<line[Len(line)]>> = toDigits(CountSum(line, Len(line) - 1) % 10)

\* C25: in both generated lines the final character is the modulo-10
\* checksum of all the characters that precede it (a digit counts its value,
\* '-' counts 1, anything else 0).
C25_ChecksumCoversPrecedingCharacters ==
    TleStringsBuilt =>
        /\ ChecksumClosesLine(Head(call.output).tle1)
        /\ ChecksumClosesLine(Head(call.output).tle2)

\* ------------------------------------------------------- the relay fetch
Fetched == call # Null /\ call.fn = "fetchIridiumTLEs" /\ call.output # Null

NetworkFailed(response) == response.kind = "rejected"

\* C26: fetchIridiumTLEs never rejects; when the network request fails it
\* resolves to the built-in fallback list, which is not empty, so that
\* runSimulation does not fail for want of relay element sets.
C26_FetchFallsBack ==
    Fetched =>
        /\ Head(call.output).settled = "fulfilled"
        /\ NetworkFailed(call.input) =>
             /\ Head(call.output).value = fallbackTLEs
             /\ Len(Head(call.output).value) > 0
             /\ ~Head(call.output).noTLEsFetched

\* the request failed and the fetch resolved with the one fallback set
C26_Witness ==
    /\ Fetched
    /\ NetworkFailed(call.input)
    /\ Head(call.output).settled = "fulfilled"
    /\ Len(Head(call.output).value) = 1
    /\ Head(call.output).value[1].name = FALLBACK_NAME

\* ------------------------------------------ the sun-synchronous inclination
InclinationSolved ==
    call # Null /\ call.fn = "sunSynchronousInclination" /\ call.output # Null

\* C27: for an altitude between 400 and 1500 km the synthesised inclination
\* is strictly between 90 and 180 degrees: its cosine is negative, above -1
\* and is what was solved, not the clamp; at 700 km it is 98.2 degrees to
\* within 0.1 degree (the cosines of 98.3 and 98.1 degrees are -0.144356
\* and -0.140901).
C27_InclinationIsRetrograde ==
    (/\ InclinationSolved
     /\ call.input.altitude >= 400
     /\ call.input.altitude <= 1500) =>
        LET out == Head(call.output)
        IN /\ out.cos_i < 0
           /\ out.cos_i > -(UnitScale * UnitScale)
           /\ out.cos_i = out.solved
           /\ call.input.altitude = 700 => (out.cos_i >= -144356 /\ out.cos_i <= -140901)

\* the inclination was solved for 700 km
C27_Witness ==
    /\ InclinationSolved
    /\ call.input.altitude = 700
    /\ Head(call.output).cos_i < 0
    /\ Head(call.output).cos_i = Head(call.output).solved

\* ------------------------------------------------------------ termination
Returned == pc \in {"done", "rejected"}

C29_TotalIsLogLength ==
    /\ totalHandshakes = Len(handshakeLog)
    /\ result # Null =>
          /\ Head(result).totalHandshakes = Len(Head(result).handshakeLog)
          /\ Head(result).totalHandshakes = totalHandshakes
          /\ Head(result).handshakeLog = handshakeLog

\* a returned run with two handshakes in which a relay stayed connected over
\* two processed steps (a link that is not a handshake)
C29_Witness ==
    /\ pc = "done"
    /\ Head(result).totalHandshakes = 2
    /\ Len(Head(result).handshakeLog) = 2
    /\ \E i \in 2..Len(Processed) :
          ConnectedAt(Processed[i]) \cap ConnectedAt(Processed[i - 1]) # {}

\* the connection set the next iteration compares against
LastLinks == IF activeLinksLog = <<>> THEN {} ELSE Last(activeLinksLog)

\* C30: at the start of every iteration previousConnectedIridiumSatIds is
\* the last entry of activeLinksLog (the empty set while the log is empty);
\* a processed step replaces it by that step's connected set, keeping
\* nothing of the set it held.
C30_PreviousIsLastLinks ==
    /\ previousConnectedIridiumSatIds = LastLinks
    /\ Processed # <<>> => previousConnectedIridiumSatIds = ConnectedAt(Last(Processed))

\* at the start of an iteration that follows a failed Beacon step, the set
\* is the one relay of the last processed step, and the relay connected at
\* the processed step before that is no longer in it
C30_Witness ==
    /\ pc = "loop"
    /\ Len(trace) = 3
    /\ trace[1].beaconOk /\ trace[2].beaconOk /\ ~trace[3].beaconOk
    /\ Len(activeLinksLog) = 2
    /\ Cardinality(activeLinksLog[1]) = 1
    /\ Cardinality(activeLinksLog[2]) = 1
    /\ activeLinksLog[1] # activeLinksLog[2]
    /\ previousConnectedIridiumSatIds = activeLinksLog[2]

\* ------------------------------------------------------- the open blackout
\* C31: before the first processed step no blackout is open; after every
\* processed step a blackout is open exactly when that step's connected set
\* is empty (failed Beacon steps in between change nothing).
C31_OpenIffNothingConnected ==
    pc \in {"loop", "done"} =>
        IF Processed = <<>>
        THEN currentBlackout = Null
        ELSE (currentBlackout # Null) <=> (ConnectedAt(Last(Processed)) = {})

\* in the loop after three processed steps: nothing connected, then a relay
\* connected (the blackout was closed), then nothing connected again, with
\* the second blackout open
C31_Witness ==
    /\ pc = "loop"
    /\ Len(Processed) = 3
    /\ ConnectedAt(Processed[1]) = {}
    /\ ConnectedAt(Processed[2]) # {}
    /\ ConnectedAt(Processed[3]) = {}
    /\ Len(blackoutPeriods) = 1
    /\ currentBlackout = Some([startTime |-> Processed[3].timestamp])

\* ------------------------------------------------- the order of the periods
SampleTimes(track) == { track[i].timestamp : i \in 1..Len(track) }

\* periods are in order and apart, and start on samples of the track
PeriodsInOrder(periods, track) ==
    /\ \A j \in 1..(Len(periods) - 1) : periods[j].endTime < periods[j + 1].startTime
    /\ \A j \in 1..Len(periods) : periods[j].startTime \in SampleTimes(track)

\* C32: blackoutPeriods is in chronological order without overlap (each
\* period ends strictly before the next one starts), every startTime is the
\* timestamp of a beaconTrack sample, and so is the endTime of every period
\* closed inside the loop; in the loop and in the returned result, where
\* only a period closed at exit may end off the track.
C32_PeriodsOrderedOnSamples ==
    /\ PeriodsInOrder(blackoutPeriods, beaconTrack)
    /\ pc = "loop" =>
          \A j \in 1..Len(blackoutPeriods) :
              blackoutPeriods[j].endTime \in SampleTimes(beaconTrack)
    /\ result # Null =>
          LET periods == Head(result).blackoutPeriods
              track == Head(result).beaconTrack
              inLoop == IF currentBlackout # Null THEN Len(periods) - 1 ELSE Len(periods)
          IN /\ PeriodsInOrder(periods, track)
             /\ \A j \in 1..inLoop : periods[j].endTime \in SampleTimes(track)

\* a returned run of three processed steps: a blackout closed by a link at
\* the second step, and a second blackout opened at the third and closed at
\* exit, off the track
C32_Witness ==
    /\ pc = "done"
    /\ Len(Head(result).blackoutPeriods) = 2
    /\ Head(result).blackoutPeriods[1].endTime = Head(result).beaconTrack[2].timestamp
    /\ Head(result).blackoutPeriods[2].startTime = Head(result).beaconTrack[3].timestamp
    /\ Head(result).blackoutPeriods[2].endTime \notin SampleTimes(Head(result).beaconTrack)

\* ------------------------------------------------------ the relay tracks
\* the timestamps of a relay track, which holds one timestamp per sample
TrackTimes(track) == { track[i] : i \in 1..Len(track) }

TracksFollowBeacon(links, track, tracks) ==
    /\ \A i \in 1..Len(links) : \A r \in links[i] :
          track[i].timestamp \in TrackTimes(tracks[r])
    /\ \A r \in DOMAIN tracks :
          /\ TrackTimes(tracks[r]) \subseteq SampleTimes(track)
          /\ Len(tracks[r]) <= Len(track)

\* C33: every relay id in activeLinksLog[i] has a sample in its track at the
\* timestamp of beaconTrack[i]; the timestamps of every relay track are
\* among those of beaconTrack, and no relay track is longer than
\* beaconTrack; in the loop and in the returned result.
C33_RelayTracksFollowBeaconTrack ==
    /\ pc \in {"loop", "done"} =>
          TracksFollowBeacon(activeLinksLog, beaconTrack, iridiumTracks)
    /\ result # Null =>
          TracksFollowBeacon(Head(result).activeLinksLog, Head(result).beaconTrack,
                             Head(result).iridiumTracks)

NoRepeatedRecord(log) ==
    \A j, k \in 1..Len(log) :
        (/\ log[j].iridiumSatelliteId = log[k].iridiumSatelliteId
         /\ log[j].timestamp = log[k].timestamp) => j = k

\* C35: handshakeLog never holds two records with the same iridiumSatelliteId
\* and the same timestamp, whatever the relay list, two element sets with the
\* same name included; in the loop and in the returned result.
C35_NoRepeatedHandshake ==
    /\ NoRepeatedRecord(handshakeLog)
    /\ result # Null => NoRepeatedRecord(Head(result).handshakeLog)

\* ------------------------------------------- a relay that fails to propagate
\* relay r was connected at processed step i - 1 and none of its records
\* propagates at processed step i
FailsWhileConnected(r, i) ==
    /\ i \in 2..Len(Processed)
    /\ r \in ConnectedAt(Processed[i - 1])
    /\ RecordsWith(Processed[i], r, {"in", "out"}) = {}

\* the start times of the blackouts opened so far
BlackoutStarts ==
    { blackoutPeriods[j].startTime : j \in 1..Len(blackoutPeriods) }
      \cup (IF currentBlackout = Null THEN {} ELSE {Head(currentBlackout).startTime})

\* the relay is not connected at the failing step and gets a new handshake
\* when it is inside the cone at the processed step after it
FailureIsDisconnection(r, i) ==
    /\ r \notin activeLinksLog[i]
    /\ (i < Len(Processed) /\ r \in ConnectedAt(Processed[i + 1])) =>
          \E j \in 1..Len(handshakeLog) :
              handshakeLog[j] = [timestamp |-> Processed[i + 1].timestamp,
                                 iridiumSatelliteId |-> r]

\* C36 as stated: a relay that fails to propagate at a processed step is not
\* connected at that step; connected before and inside the cone at the next
\* processed step, it gets a new handshake there; and when it was the only
\* relay connected at the step before, a blackout starts at the failing step.
C36_RelayFailureOpensBlackout ==
    pc \in {"loop", "done"} =>
        \A i \in 1..Len(Processed) : \A r \in satRecIds(iridiumSatRecs) :
            FailsWhileConnected(r, i) =>
                /\ FailureIsDisconnection(r, i)
                /\ ConnectedAt(Processed[i - 1]) = {r} =>
                      Processed[i].timestamp \in BlackoutStarts

\* C36 amended: as above, but the blackout starts at the failing step when
\* the relay was the only one connected at the step before and no other
\* relay is inside the cone at the failing step; when another relay is, the
\* failing step has a link and no blackout starts there.
C36_RelayFailureIsDisconnection ==
    pc \in {"loop", "done"} =>
        \A i \in 1..Len(Processed) : \A r \in satRecIds(iridiumSatRecs) :
            FailsWhileConnected(r, i) =>
                /\ FailureIsDisconnection(r, i)
                /\ ConnectedAt(Processed[i - 1]) = {r} =>
                      IF ConnectedAt(Processed[i]) = {}
                      THEN Processed[i].timestamp \in BlackoutStarts
                      ELSE /\ Processed[i].timestamp \notin BlackoutStarts
                           /\ activeLinksLog[i] = ConnectedAt(Processed[i])

\* a relay connected alone at the first step fails at the second, where a
\* blackout starts, and is inside the cone at the third, where it gets its
\* second handshake and the blackout is closed
C36_Witness ==
    /\ pc = "loop"
    /\ Len(Processed) = 3
    /\ \E r \in satRecIds(iridiumSatRecs) :
          /\ ConnectedAt(Processed[1]) = {r}
          /\ FailsWhileConnected(r, 2)
          /\ ConnectedAt(Processed[2]) = {}
          /\ r \in ConnectedAt(Processed[3])
          /\ Cardinality(HandshakesOf(handshakeLog, r)) >= 2
          /\ Last(handshakeLog) = [timestamp |-> Processed[3].timestamp,
                                   iridiumSatelliteId |-> r]
    /\ Len(blackoutPeriods) = 1
    /\ blackoutPeriods[1].startTime = Processed[2].timestamp
    /\ blackoutPeriods[1].endTime = Processed[3].timestamp

\* ------------------------------------------------------------ the playback
IndexInRange(a) == 0 <= a.currentTimeIndex /\ a.currentTimeIndex <= maxTimeIndex(a)

\* C37: under any sequence of play/pause, slider, reset, timer tick and
\* new-simulation events the index stays within 0..maxTimeIndex; a timer
\* tick at the last index stops playback and leaves the index there; a
\* slider change or a reset leaves playback paused; submitting a new
\* simulation sets the index to 0 and stops playback.
C37_PlaybackIndexInRange ==
    [][/\ IndexInRange(app) /\ IndexInRange(app')
       /\ (app'.last = "tick" /\ app.currentTimeIndex = maxTimeIndex(app)) =>
             (~app'.isPlaying /\ app'.currentTimeIndex = app.currentTimeIndex)
       /\ (app'.last = "tick" /\ app.currentTimeIndex < maxTimeIndex(app)) =>
             (app'.isPlaying /\ app'.currentTimeIndex = app.currentTimeIndex + 1)
       /\ app'.last \in {"slider", "reset"} => ~app'.isPlaying
       /\ app'.last = "reset" => app'.currentTimeIndex = 0
       /\ app'.last = "submit" =>
             (app'.currentTimeIndex = 0 /\ ~app'.isPlaying /\ maxTimeIndex(app') = 0)
      ]_vars

\* playback ran to the end of a track of at least three samples and was
\* stopped there by the tick
C37_Witness ==
    /\ app # Null
    /\ app.last = "tick"
    /\ maxTimeIndex(app) >= 2
    /\ app.currentTimeIndex = maxTimeIndex(app)
    /\ ~app.isPlaying

\* ------------------------------------------------------- the run in the App
ResultsAndConfigAgree(a) ==
    /\ (a.simulationResults # Null) <=> (a.currentConfigForDisplay # Null)
    /\ a.simulationResults # Null =>
          Head(a.simulationResults).submitted = Head(a.currentConfigForDisplay)

\* C38: after a rejection the App is not loading, holds one message and has
\* neither results nor a displayed config; after a resolution it is not
\* loading, has no error, and holds the results and the config of the same
\* submission; in every state the results are set exactly when the displayed
\* config is; and at most one run is in flight, exactly while isLoading.
C38_RunOutcomeInApp ==
    app # Null =>
        /\ app.last = "rejected" =>
              /\ ~app.isLoading
              /\ app.error # Null
              /\ Head(app.error) \in ErrorMessages
                                       \cup {"An unexpected error occurred during simulation."}
              /\ app.simulationResults = Null
              /\ app.currentConfigForDisplay = Null
        /\ app.last = "resolved" =>
              /\ ~app.isLoading
              /\ app.error = Null
              /\ app.simulationResults # Null
        /\ ResultsAndConfigAgree(app)
        /\ Len(app.runs) <= 1
        /\ app.isLoading <=> (app.runs # <<>>)

\* a run rejected without a message, after an earlier run had settled (the
\* view mode is back at 2D)
C38_Witness ==
    /\ app # Null
    /\ app.last = "rejected"
    /\ app.visualizationMode = "2D"
    /\ app.error = Some("An unexpected error occurred during simulation.")
    /\ ~app.isLoading

====
